---- MODULE Spec2Model ----
(***************************************************************************)
(* Model of the embedding layer of AI-Recruitment-Analyzer                 *)
(* (src/app/core/spark_embedding.py): the remote client SparkEmbeddingAPI  *)
(* with its retry loop, the wrapper SparkEmbeddings with its two backends, *)
(* and the hash-seeded fallback vector generators.                         *)
(*                                                                         *)
(* Durations are in tenths of a second (0.5 s = 5, 1.0 s = 10).            *)
(* Vectors are records naming where their numbers come from: the provider  *)
(* payload that was decoded, the local model's row for a text, or the      *)
(* draws of numpy's global generator from a given seed and offset.         *)
(***************************************************************************)
EXTENDS Integers, Sequences, FiniteSets, TLC

VARIABLES
    app_id,           \* SparkEmbeddings.app_id
    api_key,          \* SparkEmbeddings.api_key
    api_secret,       \* SparkEmbeddings.api_secret
    use_real_spark,   \* SparkEmbeddings.use_real_spark
    model,            \* SparkEmbeddings.model: "SentenceTransformer", "None", or "unset"
    np_random_state,  \* numpy's process-wide generator: last seed, samples drawn since
    pc,               \* position of the caller: "idle", "embed_text", "local", "done"
    op,               \* the wrapper method running: "embed_query" / "embed_documents"
    texts,            \* the texts argument of the running call
    domain,           \* the domain argument passed to the remote client
    i,                \* embed_texts: 1-based index of the text being embedded
    vectors,          \* embed_texts: the list built so far
    attempt,          \* embed_text: the loop variable
    requests,         \* embed_text: requests.post calls made in this embed_text call
    sleeps,           \* embed_text: time.sleep durations of this embed_text call
    outcomes,         \* embed_text: what each attempt of this call was answered with
    pacing,           \* embed_texts: time.sleep(0.6) calls made in this call
    model_calls,      \* sizes of the lists handed to model.encode in this call
    result,           \* what the running call returned or raised
    last_embed,       \* record of the embed_text call that has just ended
    fallbacks,        \* log of the direct generator calls: (text, dimension, vector)
    test_pc,          \* test_caching_performance: position of the test
    embeddings1,      \* test_caching_performance: result of the first embed call
    embeddings2,      \* test_caching_performance: result of the second embed call
    backend_calls2,   \* backend calls the second embed call of the test made
    cache_order,      \* cache: resident keys, oldest insertion first
    cache_store,      \* cache: key -> vector for the resident keys
    cache_log,        \* cache: the last operation and what it evicted
    embedding_instances, \* the SparkEmbeddings objects constructed so far
    services,         \* module globals holding a service: its embeddings
    documents,        \* per constructed object: its analyzer's content, information, vector store
    uploads,          \* the /upload requests suspended at an await, with their local variables
    startup,          \* the application: "pending" before startup_event, then "serving"
    compared,         \* embed_query(t) and embed_documents([t]) under one provider behaviour
    callers,          \* service facade: each concurrent caller's EmbedDocuments call
    stats,            \* service facade: the counters totalRequests and cacheHits
    completed,        \* texts and hits of the calls completed since the last reset
    stats_log,        \* the last operation on the counters and their values before it
    normalized,       \* the last generator call on sample values, and numpy's samples by seed
    generating,       \* each request handler's position in _generate_fallback_vector
    interview_sessions,   \* api.interview.interview_sessions: session_id -> session
    enhanced_generator,   \* api.interview.enhanced_generator: constructed or None
    current_match_report, \* api.match.current_match_report: set or None
    response              \* the last response of an interview endpoint

vars == << app_id, api_key, api_secret, use_real_spark, model, np_random_state, pc, op, texts, domain, i,
           vectors, attempt, requests, sleeps, outcomes, pacing, model_calls,
           result, last_embed, fallbacks, test_pc, embeddings1, embeddings2,
           backend_calls2, cache_order, cache_store, cache_log,
           embedding_instances, services, documents, uploads, startup, compared,
           callers,
           stats,
           completed, stats_log, normalized, generating, interview_sessions,
           enhanced_generator, current_match_report, response >>

interviewVars == << interview_sessions, enhanced_generator, response >>

credVars == << app_id, api_key, api_secret >>

callVars == << op, texts, domain, i, vectors, attempt, requests, sleeps,
               outcomes, pacing, model_calls, result, last_embed >>

cacheVars == << cache_order, cache_store, cache_log >>

testVars == << test_pc, embeddings1, embeddings2, backend_calls2 >>

appVars == << embedding_instances, services, documents, uploads, startup >>

statsVars == << callers, stats, completed, stats_log >>

----------------------------------------------------------------------------
(* Bounds of the model *)

\* longest texts list of a wrapper call in the main specification
MaxTexts == 2

\* number of distinct payloads the provider may answer one request with
NumPayloads == 2

\* direct calls of the fallback generators in one behaviour
MaxGenerations == 4

\* longest texts list handed to the local backend in the batch specification
MaxBatchTexts == 100

\* the cache capacity the cache specification is configured with
cacheSize == 3

\* SparkEmbeddings objects constructed in one behaviour of the services
MaxInstances == 5

\* EmbedDocuments calls completed between two resets of the statistics
MaxCompleted == 3

\* length of the sample vectors the normalisation step is applied to
SampleDim == 3

\* answers recorded in all the interview sessions together
MaxAnswers == 4

\* answers recorded in the specification with two session ids
MaxSharedAnswers == 1

\* /upload requests under way at once
MaxUploads == 2

----------------------------------------------------------------------------
(* Program constants *)

MAX_RETRIES == 3
RETRY_DELAY == 10
FIRST_CALL_DELAY == 5
BATCH_CALL_DELAY == 6
RATE_LIMIT_CODE == 11202
API_FALLBACK_DIM == 512
LOCAL_FALLBACK_DIM == 384
EMBEDDING_BATCH_SIZE == 32
MODEL_DIM == 384

\* a constructor argument: the default "" or a value of the spark_config
CredentialValues == {"", "configured"}

\* Python's None, which the tests pass where a text is expected
None == "<None>"

\* the str texts of the model: empty, whitespace-only, ordinary
StrTexts == {"", "   ", "a"}

Texts == StrTexts \cup {None}

\* the text of an uploaded document: none that can be read, or a short one
DocumentTexts == {"", "a"}

NoVector == [kind |-> "none"]

----------------------------------------------------------------------------
(* numpy's global generator and the fallback vector generators *)

RECURSIVE Pow2(_)
Pow2(n) == IF n = 0 THEN 1 ELSE 2 * Pow2(n - 1)

\* int(hashlib.md5(text.encode()).hexdigest()[:8], 16) for the texts of the
\* model, kept as its eight hexadecimal digits: the value is below 2^32, so
\* the seed % (2**32) of the code leaves it as it is
Seed(text) ==
    CASE text = ""    -> "d41d8cd9"
      [] text = "   " -> "628631f0"
      [] text = "a"   -> "0cc175b9"
      [] text = "b"   -> "92eb5ffe"

\* text.encode(): None has no encode attribute (AttributeError)
EncodeRaises(text) == text = None

\* np.random.seed(s) with the seeding left out: the generator keeps its state
NpRandomSeedSkipped(st, s) == st

\* np.random.seed(s): the generator restarts from s
NpRandomSeed(st, s) == [seed |-> s, drawn |-> 0]

\* np.random.normal(0, 0.3, dim): the next dim samples of the generator
NpRandomNormal(st, dim) ==
    [samples |-> [seed |-> st.seed, offset |-> st.drawn, dim |-> dim],
     state   |-> [seed |-> st.seed, drawn |-> st.drawn + dim]]

\* magnitude = sum(x*x) ** 0.5; if magnitude > 0: x / magnitude
Normalize(samples) ==
    [kind |-> "fallback", seed |-> samples.seed, offset |-> samples.offset,
     dim |-> samples.dim]

\* the common body of the two _generate_fallback_vector methods
GenerateFallback(text, dim, st) ==
    IF EncodeRaises(text)
    THEN [raised |-> TRUE, vec |-> NoVector, state |-> st]
    ELSE LET seeded == NpRandomSeed(st, Seed(text))
             drawn  == NpRandomNormal(seeded, dim)
         IN  [raised |-> FALSE, vec |-> Normalize(drawn.samples),
              state |-> drawn.state]

\* the client's generator drawing the wrapper's 384 samples
ApiFallbackVectorLocalDim(text, st) == GenerateFallback(text, LOCAL_FALLBACK_DIM, st)

\* SparkEmbeddingAPI._generate_fallback_vector
ApiFallbackVector(text, st) == GenerateFallback(text, API_FALLBACK_DIM, st)

\* SparkEmbeddings._generate_fallback_vector
LocalFallbackVector(text, st) == GenerateFallback(text, LOCAL_FALLBACK_DIM, st)

\* the vector a generator started afresh yields for (text, dim)
Generate(text, dim) ==
    [kind |-> "fallback", seed |-> Seed(text), offset |-> 0, dim |-> dim]

----------------------------------------------------------------------------
(* The provider's answers and one iteration of embed_text's retry loop *)

\* payload 0 stands for a code-0 body whose vector cannot be decoded
Response(raised, status, json_ok, code, payload) ==
    [raised |-> raised, status |-> status, json_ok |-> json_ok,
     code |-> code, payload |-> payload]

Responses ==
    {Response(TRUE, 0, FALSE, 0, 0)}                    \* requests.post raised
    \cup {Response(FALSE, 500, FALSE, 0, 0)}            \* HTTP status other than 200
    \cup {Response(FALSE, 200, FALSE, 0, 0)}            \* body is not JSON
    \cup {Response(FALSE, 200, TRUE, 0, p) : p \in 0..NumPayloads}
    \cup {Response(FALSE, 200, TRUE, c, 0) : c \in {RATE_LIMIT_CODE, 10163, -1}}

Classify(resp) ==
    IF resp.raised THEN "exception"
    ELSE IF resp.status # 200 THEN "http_error"
    ELSE IF ~resp.json_ok THEN "exception"
    ELSE IF resp.code = 0 THEN (IF resp.payload = 0 THEN "bad_payload" ELSE "ok")
    ELSE IF resp.code = RATE_LIMIT_CODE THEN "rate_limit"
    ELSE "other_code"

\* _get_body: the request carries the text and the domain
GetBody(text, dom) == [text |-> text, domain |-> dom]

\* the number of float32 values in the provider's payload p: the client's
\* fallback length for payload 1, longer vectors for the others
PayloadLength(p) == API_FALLBACK_DIM + (p - 1) * 1024

\* base64 payload -> float32 list: the provider's payload for this request,
\* as long as the payload is
DecodeVector(body, resp) ==
    [kind |-> "api", text |-> body.text, domain |-> body.domain,
     payload |-> resp.payload, dim |-> PayloadLength(resp.payload)]

\* the pacing delay slept before a retry as well, on top of the backoff
AttemptDelayPacedRetry(att) ==
    IF att > 0 THEN FIRST_CALL_DELAY + RETRY_DELAY * Pow2(att)
    ELSE FIRST_CALL_DELAY

\* the retry delay without the exponent: the same delay before every retry
AttemptDelayConstant(att) ==
    IF att > 0 THEN RETRY_DELAY * 2 ELSE FIRST_CALL_DELAY

\* time.sleep argument at the top of an iteration
AttemptDelay(att) ==
    IF att > 0 THEN RETRY_DELAY * Pow2(att) ELSE FIRST_CALL_DELAY

Continue(st) == [next |-> "continue", vec |-> NoVector, state |-> st]
ReturnVec(v, st) == [next |-> "return", vec |-> v, state |-> st]
Raise(st) == [next |-> "raise", vec |-> NoVector, state |-> st]

\* the except clause falling back at once, without another attempt
ExceptClauseNoRetry(text, att, st) ==
    LET fb == ApiFallbackVector(text, st)
    IN  IF fb.raised THEN Raise(st) ELSE ReturnVec(fb.vec, fb.state)

\* the except clause with the last attempt re-raising instead of falling back
ExceptClauseReraise(text, att, st) ==
    IF att < MAX_RETRIES - 1 THEN Continue(st) ELSE Raise(st)

\* except Exception: retry, or on the last attempt return the fallback vector
ExceptClause(text, att, st) ==
    LET fb == ApiFallbackVector(text, st)
    IN  IF att < MAX_RETRIES - 1 THEN Continue(st)
        ELSE IF fb.raised THEN Raise(st)
        ELSE ReturnVec(fb.vec, fb.state)

\* the fallback return preceded by a retry while attempts are left
ReturnFallbackAfterRetries(text, att, st) ==
    IF att < MAX_RETRIES - 1 THEN Continue(st)
    ELSE LET fb == ApiFallbackVector(text, st)
         IN  IF fb.raised THEN Raise(st) ELSE ReturnVec(fb.vec, fb.state)

\* return self._generate_fallback_vector(text) inside the try block
ReturnFallback(text, att, st) ==
    LET fb == ApiFallbackVector(text, st)
    IN  IF fb.raised THEN ExceptClause(text, att, st)
        ELSE ReturnVec(fb.vec, fb.state)

\* elif code == 11202
RateLimitBranch(text, att, st) ==
    IF att < MAX_RETRIES - 1 THEN Continue(st) ELSE ReturnFallback(text, att, st)

\* the else branch of the code check retrying like a rate limit
OtherCodeBranchRetry(text, att, st) ==
    IF att < MAX_RETRIES - 1 THEN Continue(st) ELSE ReturnFallback(text, att, st)

\* else: any other provider code
OtherCodeBranch(text, att, st) == ReturnFallback(text, att, st)

\* one iteration of the for loop of embed_text, given the provider's answer
AttemptStep(text, dom, att, resp, st) ==
    IF resp.raised THEN ExceptClause(text, att, st)
    ELSE IF resp.status = 200
    THEN IF ~resp.json_ok THEN ExceptClause(text, att, st)
         ELSE IF resp.code = 0
         THEN IF resp.payload = 0 THEN ExceptClause(text, att, st)
              ELSE ReturnVec(DecodeVector(GetBody(text, dom), resp), st)
         ELSE IF resp.code = RATE_LIMIT_CODE THEN RateLimitBranch(text, att, st)
         ELSE OtherCodeBranch(text, att, st)
    ELSE IF att < MAX_RETRIES - 1 THEN Continue(st)
         ELSE ReturnFallback(text, att, st)

----------------------------------------------------------------------------
(* The local backend *)

\* a row of model.encode(texts): the model's embedding of one text
ModelVector(text) == [kind |-> "model", text |-> text, dim |-> MODEL_DIM]

\* embeddings.tolist() of model.encode(ts): one row per text, in order
ModelEncode(ts) == [k \in 1..Len(ts) |-> ModelVector(ts[k])]

\* the else branch of _embed_with_local_model: one fallback vector per text;
\* a raising text.encode() ends the loop with what was generated before it
RECURSIVE FallbackLoop(_, _, _, _)
FallbackLoop(ts, k, acc, st) ==
    IF k > Len(ts) THEN [raised |-> FALSE, vecs |-> acc, state |-> st]
    ELSE LET fb == LocalFallbackVector(ts[k], st)
         IN  IF fb.raised THEN [raised |-> TRUE, vecs |-> acc, state |-> st]
             ELSE FallbackLoop(ts, k + 1, Append(acc, fb.vec), fb.state)

----------------------------------------------------------------------------
(* Values of the call state *)

NoResult == [kind |-> "none"]
Raised(exc) == [kind |-> "raised", exc |-> exc]
ListResult(vs) == [kind |-> "list", value |-> vs]
VectorResult(v) == [kind |-> "vector", value |-> v]

NoEmbed == [kind |-> "none"]
NoLog == [op |-> "none", key |-> 0, before |-> << >>, found |-> FALSE,
          last_get |-> 0]

\* the sequence a begins the sequence b
IsPrefix(a, b) == Len(a) <= Len(b) /\ \A k \in 1..Len(a) : a[k] = b[k]

NoComparison == [kind |-> "none"]

NotNormalized == [kind |-> "none"]

\* the concurrent callers of the service facade
Callers == {"c1", "c2"}

\* the session ids a client may send
SessionIds == {"s1", "s2"}

\* an id that is not a key of interview_sessions
NoSession == [kind |-> "none"]

\* InterviewSession(session_id, candidate_info), candidate_info being a JSON
\* object ("dict") or another JSON value ("other")
NewSession(candidate_info) ==
    [kind |-> "session", conversation_history |-> << >>, question_count |-> 0,
     follow_up_count |-> 0, candidate_info |-> candidate_info]

\* HumanMessage(content=question): an interviewer question, with whether the
\* handler generated it as a follow-up
HumanMessage(follow_up) == [type |-> "HumanMessage", follow_up |-> follow_up]

\* AIMessage(content=interview_msg.message): a candidate answer
AIMessage == [type |-> "AIMessage", follow_up |-> FALSE]

\* no interview request has been answered yet
NoResponse == [request |-> "none", session_id |-> "none", status |-> 0,
               detail |-> "none", before |-> NoSession]

\* a returned value (status 200) or an HTTPException, with what was stored
\* under the session id when the request arrived
HttpResponse(request, id, status, detail) ==
    [request |-> request, session_id |-> id, status |-> status, detail |-> detail,
     before |-> interview_sessions[id]]

NotGenerating == [pc |-> "idle", text |-> "", dim |-> 0, vec |-> NoVector]

IdleCaller == [pc |-> "idle", keys |-> << >>, hits |-> 0]
ZeroStats == [totalRequests |-> 0, cacheHits |-> 0]
NoCompleted == [calls |-> 0, texts |-> 0, hits |-> 0]
NoStatsLog == [op |-> "none", before |-> ZeroStats]

\* the arguments of the wrapper calls of the main specification
EmptyLikeTexts == << "", "   ", None >>

InputLists ==
    UNION {[1..n -> Texts] : n \in 1..MaxTexts} \cup {EmptyLikeTexts}

FallbackRecord(text, vec) == [text |-> text, dim |-> vec.dim, vec |-> vec]

\* the names that hold a service object, by module
ServiceHolders ==
    {"state_manager._resume_analyzer", "state_manager._job_analyzer",
     "api.resume.resume_analyzer", "api.job.job_analyzer"}

\* a holder that is None holds 0; otherwise the index of the SparkEmbeddings
\* object its service constructed (object identity)
NoService == [h \in ServiceHolders |-> 0]

\* what json.loads gives for the language model's reply about a document: a
\* JSON object, or another JSON value (a list, a string, a number)
InfoKinds == {"dict", "other"}

\* an analyzer as constructed: resume_content / job_content "", vector_store
\* None, candidate_info / structured_job_data {}
NoDocument == [content |-> "", vector_store |-> FALSE, info |-> "dict"]

\* the /upload requests that can be under way at once
UploadRequests == 1..MaxUploads

\* no request in the slot
NoUpload == [pc |-> "idle", resume_analyzer |-> 0, job_analyzer |-> 0]

----------------------------------------------------------------------------
(* Construction *)

\* the backend chosen whenever an app_id is given
UseRealSparkAppIdOnly(id, key, secret) == id # ""

\* self.use_real_spark = bool(app_id and api_key and api_secret)
UseRealSpark(id, key, secret) == id # "" /\ key # "" /\ secret # ""

\* SparkEmbeddings.__init__: the credentials decide the backend; without them
\* the local model is loaded, or left None when its import fails
Init ==
    /\ app_id \in CredentialValues
    /\ api_key \in CredentialValues
    /\ api_secret \in CredentialValues
    /\ use_real_spark = UseRealSpark(app_id, api_key, api_secret)
    /\ model \in (IF use_real_spark THEN {"unset"}
                  ELSE {"SentenceTransformer", "None"})
    /\ np_random_state = [seed |-> "unseeded", drawn |-> 0]
    /\ pc = "idle"
    /\ op = "none"
    /\ texts = << >>
    /\ domain = "none"
    /\ i = 0
    /\ vectors = << >>
    /\ attempt = 0
    /\ requests = 0
    /\ sleeps = << >>
    /\ outcomes = << >>
    /\ pacing = 0
    /\ model_calls = << >>
    /\ result = NoResult
    /\ last_embed = NoEmbed
    /\ fallbacks = << >>
    /\ test_pc = "start"
    /\ embeddings1 = NoResult
    /\ embeddings2 = NoResult
    /\ backend_calls2 = 0
    /\ cache_order = << >>
    /\ cache_store = << >>
    /\ cache_log = NoLog
    /\ embedding_instances = << >>
    /\ services = NoService
    /\ documents = << >>
    /\ uploads = [u \in UploadRequests |-> NoUpload]
    /\ startup = "pending"
    /\ compared = NoComparison
    /\ callers = [c \in Callers |-> IdleCaller]
    /\ stats = ZeroStats
    /\ completed = NoCompleted
    /\ stats_log = NoStatsLog
    /\ normalized = NotNormalized
    /\ generating = [c \in Callers |-> NotGenerating]
    /\ interview_sessions = [id \in SessionIds |-> NoSession]
    /\ enhanced_generator = FALSE
    /\ current_match_report = FALSE
    /\ response = NoResponse

----------------------------------------------------------------------------
(* The wrapper calls *)

\* the code after the for loop of embed_text, reached when the loop runs out
AfterLoop(text, st) ==
    LET fb == ApiFallbackVector(text, st)
    IN  IF fb.raised THEN Raise(st) ELSE ReturnVec(fb.vec, fb.state)

\* one iteration of range(max_retries), and the code after the loop when a
\* continue ends the last iteration
LoopStep(text, dom, att, resp, st) ==
    LET s == AttemptStep(text, dom, att, resp, st)
    IN  IF s.next = "continue" /\ att + 1 >= MAX_RETRIES
        THEN AfterLoop(text, s.state)
        ELSE s

\* the query-only tagging: every request carries domain "query"
DomainOfQueryOnly(o) == "query"

\* embed_documents uses domain "para", embed_query domain "query"
DomainOf(o) == IF o = "embed_documents" THEN "para" ELSE "query"

\* what the wrapper method hands back from the list of vectors
Returned(o, vs) == IF o = "embed_query" THEN VectorResult(vs[1]) ELSE ListResult(vs)

\* the pause slept before every embed_text call, the first included
PaceBeforeEvery(idx, slept) == slept + 1

\* embed_texts: if i > 0: time.sleep(0.6), before the call for the text at the
\* 0-based index idx; slept counts the pauses made so far
PaceBefore(idx, slept) == IF idx > 0 THEN slept + 1 ELSE slept

\* entry into embed_query(text) / embed_documents(texts): the locals of the call
StartCall(o, ts) ==
    /\ op' = o
    /\ texts' = ts
    /\ IF use_real_spark
       THEN /\ pc' = "embed_text"
            /\ domain' = DomainOf(o)
            /\ i' = 1
       ELSE /\ pc' = "local"
            /\ domain' = "none"
            /\ i' = 0
    /\ vectors' = << >>
    /\ attempt' = 0
    /\ requests' = 0
    /\ sleeps' = << >>
    /\ outcomes' = << >>
    /\ pacing' = IF use_real_spark /\ o = "embed_documents"
                 THEN PaceBefore(0, 0) ELSE 0
    /\ model_calls' = << >>
    /\ result' = NoResult
    /\ last_embed' = NoEmbed

\* a caller invokes embed_query(text) or embed_documents(texts)
Call(o, ts) ==
    /\ pc = "idle"
    /\ o = "embed_query" => Len(ts) = 1
    /\ StartCall(o, ts)
    /\ UNCHANGED << credVars, interviewVars, current_match_report, generating, use_real_spark, model, np_random_state, fallbacks, testVars,
                    cacheVars, appVars, compared, statsVars, normalized >>

\* SparkEmbeddingAPI.embed_text: one iteration of the retry loop for texts[i],
\* answered by the provider; when the call returns inside embed_texts, the
\* loop of embed_texts appends the vector and paces the next call
EmbedTextAttempt ==
    /\ pc = "embed_text"
    /\ attempt < MAX_RETRIES
    /\ \E resp \in Responses :
         LET text  == texts[i]
             step  == LoopStep(text, domain, attempt, resp, np_random_state)
             slept == Append(sleeps, AttemptDelay(attempt))
             sent  == requests + 1
             seen  == Append(outcomes, Classify(resp))
             ended(kind) ==
                 [kind |-> kind, text |-> text, domain |-> domain,
                  vec |-> step.vec, requests |-> sent, sleeps |-> slept,
                  outcomes |-> seen, response |-> resp]
         IN  /\ np_random_state' = step.state
             /\ CASE step.next = "continue" ->
                       /\ attempt' = attempt + 1
                       /\ requests' = sent
                       /\ sleeps' = slept
                       /\ outcomes' = seen
                       /\ last_embed' = NoEmbed
                       /\ UNCHANGED << pc, i, vectors, pacing, result >>
                  [] step.next = "return" ->
                       /\ last_embed' = ended("returned")
                       /\ attempt' = 0
                       /\ requests' = 0
                       /\ sleeps' = << >>
                       /\ outcomes' = << >>
                       /\ vectors' = Append(vectors, step.vec)
                       /\ IF op = "embed_documents" /\ i < Len(texts)
                          THEN /\ i' = i + 1
                               /\ pacing' = PaceBefore(i, pacing)
                               /\ UNCHANGED << pc, result >>
                          ELSE /\ pc' = "done"
                               /\ result' = Returned(op, vectors')
                               /\ UNCHANGED << i, pacing >>
                  [] step.next = "raise" ->
                       /\ last_embed' = ended("raised")
                       /\ attempt' = 0
                       /\ requests' = 0
                       /\ sleeps' = << >>
                       /\ outcomes' = << >>
                       /\ pc' = "done"
                       /\ result' = Raised("AttributeError")
                       /\ UNCHANGED << i, vectors, pacing >>
    /\ UNCHANGED << credVars, interviewVars, current_match_report, generating, use_real_spark, model, op, texts, domain, model_calls,
                    fallbacks, testVars, cacheVars, appVars, compared,
                    statsVars, normalized >>

\* SparkEmbeddings._embed_with_local_model, for embed_documents(texts) and for
\* embed_query(text) as [text]: one model.encode call over all the texts, which
\* may raise, or one fallback vector per text when there is no model
EmbedWithLocalModel ==
    /\ pc = "local"
    /\ IF model = "SentenceTransformer"
       THEN \E raises \in BOOLEAN :
              /\ model_calls' = Append(model_calls, Len(texts))
              /\ result' = IF raises THEN Raised("encode")
                           ELSE Returned(op, ModelEncode(texts))
              /\ UNCHANGED np_random_state
       ELSE LET r == FallbackLoop(texts, 1, << >>, np_random_state)
            IN  /\ np_random_state' = r.state
                /\ result' = IF r.raised THEN Raised("AttributeError")
                             ELSE Returned(op, r.vecs)
                /\ UNCHANGED model_calls
    /\ pc' = "done"
    /\ UNCHANGED << credVars, interviewVars, current_match_report, generating, use_real_spark, model, op, texts, domain, i, vectors, attempt,
                    requests, sleeps, outcomes, pacing, last_embed, fallbacks,
                    testVars, cacheVars, appVars, compared, statsVars, normalized >>

\* embed_text calls made (remote) or model.encode calls made (local) by the call
BackendCalls == IF use_real_spark THEN i ELSE Len(model_calls)

\* the locals of a call that is over
EndCall ==
    /\ op' = "none"
    /\ texts' = << >>
    /\ domain' = "none"
    /\ i' = 0
    /\ vectors' = << >>
    /\ attempt' = 0
    /\ requests' = 0
    /\ sleeps' = << >>
    /\ outcomes' = << >>
    /\ pacing' = 0
    /\ model_calls' = << >>
    /\ result' = NoResult
    /\ last_embed' = NoEmbed

\* the call is over: its value or exception reaches the caller
Return ==
    /\ pc = "done"
    /\ pc' = "idle"
    /\ EndCall
    /\ UNCHANGED << credVars, interviewVars, current_match_report, generating, use_real_spark, model, np_random_state, fallbacks, testVars,
                    cacheVars, appVars, compared, statsVars, normalized >>

Next ==
    \/ \E o \in {"embed_query", "embed_documents"}, ts \in InputLists : Call(o, ts)
    \/ EmbedTextAttempt
    \/ EmbedWithLocalModel
    \/ Return

Spec == Init /\ [][Next]_vars

----------------------------------------------------------------------------
(* The fallback generators called directly, in any order *)

\* SparkEmbeddingAPI._generate_fallback_vector(text); the client object exists
\* only on the remote backend
ApiGenerateFallback(text) ==
    /\ pc = "idle"
    /\ use_real_spark
    /\ Len(fallbacks) < MaxGenerations
    /\ LET fb == ApiFallbackVector(text, np_random_state)
       IN  /\ ~fb.raised
           /\ np_random_state' = fb.state
           /\ fallbacks' = Append(fallbacks, FallbackRecord(text, fb.vec))
    /\ UNCHANGED << credVars, interviewVars, current_match_report, generating, use_real_spark, model, pc, callVars, testVars, cacheVars,
                    appVars, compared, statsVars, normalized >>

\* SparkEmbeddings._generate_fallback_vector(text)
LocalGenerateFallback(text) ==
    /\ pc = "idle"
    /\ Len(fallbacks) < MaxGenerations
    /\ LET fb == LocalFallbackVector(text, np_random_state)
       IN  /\ ~fb.raised
           /\ np_random_state' = fb.state
           /\ fallbacks' = Append(fallbacks, FallbackRecord(text, fb.vec))
    /\ UNCHANGED << credVars, interviewVars, current_match_report, generating, use_real_spark, model, pc, callVars, testVars, cacheVars,
                    appVars, compared, statsVars, normalized >>

NextFallback ==
    \/ \E t \in StrTexts : ApiGenerateFallback(t)
    \/ \E t \in StrTexts : LocalGenerateFallback(t)

SpecFallback == Init /\ [][NextFallback]_vars

----------------------------------------------------------------------------
(* The local backend on long lists *)

TextCycle == << "a", "", "   " >>

\* a list of n texts in which neighbours differ
BatchTexts(n) == [k \in 1..n |-> TextCycle[((k - 1) % Len(TextCycle)) + 1]]

\* the local backend with its model loaded
InitBatch == Init /\ model = "SentenceTransformer"

NextBatch ==
    \/ \E n \in 1..MaxBatchTexts : Call("embed_documents", BatchTexts(n))
    \/ EmbedWithLocalModel
    \/ Return

SpecBatch == InitBatch /\ [][NextBatch]_vars

----------------------------------------------------------------------------
(* test_caching_performance: the same list embedded twice, results compared *)

\* embeddings1 = embed_texts(test_texts), entered
TestFirstEmbed(ts) ==
    /\ pc = "idle"
    /\ test_pc = "start"
    /\ StartCall("embed_documents", ts)
    /\ test_pc' = "first"
    /\ UNCHANGED << credVars, interviewVars, current_match_report, generating, use_real_spark, model, np_random_state, fallbacks,
                    embeddings1, embeddings2, backend_calls2, cacheVars,
                    appVars, compared, statsVars, normalized >>

\* the first call has returned; embeddings2 = embed_texts(test_texts), entered
TestSecondEmbed ==
    /\ pc = "done"
    /\ test_pc = "first"
    /\ result.kind # "raised"
    /\ embeddings1' = result
    /\ StartCall(op, texts)
    /\ test_pc' = "second"
    /\ UNCHANGED << credVars, interviewVars, current_match_report, generating, use_real_spark, model, np_random_state, fallbacks,
                    embeddings2, backend_calls2, cacheVars, appVars, compared,
                    statsVars, normalized >>

\* the second call has returned; assert embeddings1 == embeddings2 is evaluated
TestAssert ==
    /\ pc = "done"
    /\ test_pc = "second"
    /\ result.kind # "raised"
    /\ embeddings2' = result
    /\ backend_calls2' = BackendCalls
    /\ test_pc' = "asserted"
    /\ pc' = "idle"
    /\ EndCall
    /\ UNCHANGED << credVars, interviewVars, current_match_report, generating, use_real_spark, model, np_random_state, fallbacks,
                    embeddings1, cacheVars, appVars, compared, statsVars, normalized >>

NextCaching ==
    \/ \E ts \in InputLists : TestFirstEmbed(ts)
    \/ EmbedTextAttempt
    \/ EmbedWithLocalModel
    \/ TestSecondEmbed
    \/ TestAssert

SpecCaching == Init /\ [][NextCaching]_vars

----------------------------------------------------------------------------
(* The local backend without a model *)

\* sentence_transformers cannot be imported: self.model = None
InitNoModel == Init /\ model = "None"

NextNoModel ==
    \/ \E o \in {"embed_query", "embed_documents"}, ts \in InputLists : Call(o, ts)
    \/ EmbedWithLocalModel
    \/ Return

SpecNoModel == InitNoModel /\ [][NextNoModel]_vars

----------------------------------------------------------------------------
(* The embedding cache: Get, Put, Clear, Len over a bounded key -> vector    *)
(* store that evicts in insertion order                                     *)

\* hashes of cacheSize + 2 distinct normalized texts
CacheKeys == 1..(cacheSize + 2)

\* the vectors a caller may offer for a key
CacheVectors(key) == {[kind |-> "cached", key |-> key, variant |-> v] : v \in 1..2}

Resident(order) == {order[k] : k \in 1..Len(order)}

\* Len()
CacheLen == Len(cache_order)

\* eviction taking the entry inserted last
CacheEvictNewest(order) == SubSeq(order, 1, Len(order) - 1)

\* eviction: the entry inserted earliest leaves
CacheEvict(order) == Tail(order)

\* a Put that stores the offered vector also when the key is resident
CachePutOverwrite(key, vec) ==
    /\ pc = "idle"
    /\ LET kept == IF key \in Resident(cache_order) THEN cache_order
                   ELSE IF Len(cache_order) >= cacheSize
                   THEN CacheEvict(cache_order)
                   ELSE cache_order
       IN  /\ cache_order' = IF key \in Resident(cache_order) THEN cache_order
                             ELSE Append(kept, key)
           /\ cache_store' =
                 [x \in Resident(kept) \cup {key} |->
                     IF x = key THEN vec ELSE cache_store[x]]
    /\ cache_log' = [op |-> "put", key |-> key, before |-> cache_order,
                     found |-> key \in Resident(cache_order),
                     last_get |-> cache_log.last_get]
    /\ UNCHANGED << credVars, interviewVars, current_match_report, generating, use_real_spark, model, np_random_state, pc, callVars,
                    fallbacks, testVars, appVars, compared, statsVars,
                    normalized >>

\* Put(key, vector): a resident key is left as it is; a new key is appended,
\* after one eviction when the cache is full
CachePut(key, vec) ==
    /\ pc = "idle"
    /\ IF key \in Resident(cache_order)
       THEN UNCHANGED << cache_order, cache_store >>
       ELSE LET kept == IF Len(cache_order) >= cacheSize
                        THEN CacheEvict(cache_order)
                        ELSE cache_order
            IN  /\ cache_order' = Append(kept, key)
                /\ cache_store' =
                     [x \in Resident(kept) \cup {key} |->
                         IF x = key THEN vec ELSE cache_store[x]]
    /\ cache_log' = [op |-> "put", key |-> key, before |-> cache_order,
                     found |-> key \in Resident(cache_order),
                     last_get |-> cache_log.last_get]
    /\ UNCHANGED << credVars, interviewVars, current_match_report, generating, use_real_spark, model, np_random_state, pc, callVars,
                    fallbacks, testVars, appVars, compared, statsVars, normalized >>

\* Get(key) -> (vector, found): reading changes neither content nor order
CacheGet(key) ==
    /\ pc = "idle"
    /\ cache_log' = [op |-> "get", key |-> key, before |-> cache_order,
                     found |-> key \in Resident(cache_order),
                     last_get |-> key]
    /\ UNCHANGED << credVars, interviewVars, current_match_report, generating, use_real_spark, model, np_random_state, pc, callVars,
                    fallbacks, testVars, cache_order, cache_store, appVars,
                    compared, statsVars, normalized >>

\* Clear()
CacheClear ==
    /\ pc = "idle"
    /\ cache_order' = << >>
    /\ cache_store' = << >>
    /\ cache_log' = [op |-> "clear", key |-> 0, before |-> cache_order,
                     found |-> FALSE, last_get |-> 0]
    /\ UNCHANGED << credVars, interviewVars, current_match_report, generating, use_real_spark, model, np_random_state, pc, callVars,
                    fallbacks, testVars, appVars, compared, statsVars, normalized >>

NextCache ==
    \/ \E key \in CacheKeys : \E vec \in CacheVectors(key) : CachePut(key, vec)
    \/ \E key \in CacheKeys : CacheGet(key)
    \/ CacheClear

\* the cache does not depend on the backend: one configuration is enough
InitCache == Init /\ use_real_spark

SpecCache == InitCache /\ [][NextCache]_vars

----------------------------------------------------------------------------
(* The services and the SparkEmbeddings objects they construct *)

\* SPARK_CONFIG carries a non-empty app_id, api_key and api_secret
SPARK_CONFIG_HAS_CREDENTIALS == TRUE

\* what importing sentence_transformers and loading all-MiniLM-L6-v2 does
SentenceTransformerOutcomes == {"loaded", "ImportError", "OSError"}

\* SparkEmbeddings(app_id, api_key, api_secret): with credentials the remote
\* client; without them the local model, None when the import fails; any
\* other exception of the load leaves the constructor
NewSparkEmbeddings(owner, credentials, st) ==
    IF credentials
    THEN [raised |-> FALSE,
          inst |-> [owner |-> owner, use_real_spark |-> TRUE, model |-> "unset"]]
    ELSE IF st = "loaded"
    THEN [raised |-> FALSE,
          inst |-> [owner |-> owner, use_real_spark |-> FALSE,
                    model |-> "SentenceTransformer"]]
    ELSE IF st = "ImportError"
    THEN [raised |-> FALSE,
          inst |-> [owner |-> owner, use_real_spark |-> FALSE, model |-> "None"]]
    ELSE [raised |-> TRUE, inst |-> [owner |-> owner]]

\* the credentials each service hands to SparkEmbeddings: ResumeAnalyzer none,
\* JobAnalyzer and ResumeJobMatcher those of the spark_config
CredentialsOf(class) ==
    IF class = "ResumeAnalyzer" THEN FALSE ELSE SPARK_CONFIG_HAS_CREDENTIALS

\* Class(get_spark_config()): self.embeddings = SparkEmbeddings(...), no
\* content, no vector store, {} as information. app is the handler's view of
\* the process: the objects constructed and their documents, the holders, the
\* suspended /upload requests, numpy's generator, and whether an exception is
\* on its way out of the handler
ConstructObject(app, class, st) ==
    LET e == NewSparkEmbeddings(class, CredentialsOf(class), st)
    IN  IF e.raised THEN [app EXCEPT !.raised = TRUE]
        ELSE [app EXCEPT !.insts = Append(@, e.inst),
                         !.docs = Append(@, NoDocument)]

\* holder = Class(get_spark_config())
ConstructService(app, holder, class, st) ==
    LET built == ConstructObject(app, class, st)
    IN  IF built.raised THEN built
        ELSE [built EXCEPT !.svc[holder] = Len(built.insts)]

\* if holder is None: holder = Class(get_spark_config())
GetOrConstruct(app, holder, class, st) ==
    IF app.raised \/ app.svc[holder] # 0 THEN app
    ELSE ConstructService(app, holder, class, st)

\* state_manager.reset_analyzers: the two holders are set to None; whoever
\* else refers to the analyzers keeps them
ResetAnalyzers(app) ==
    [app EXCEPT !.svc["state_manager._resume_analyzer"] = 0,
                !.svc["state_manager._job_analyzer"] = 0]

\* api.match.reset_current_match_report, which api/main.py imports and calls
\* and api/match.py does not define: what current_match_report may be after
\* the call, None or what it was
ResetCurrentMatchReport(report) == {FALSE, report}

\* what the backend does whenever a call of the handler reaches it: "ok", it
\* answers; "exception", requests.post or model.encode raises; "rate_limit",
\* the provider answers 11202 (model.encode, which has no such answer,
\* returns)
BackendBehaviours == {"ok", "exception", "rate_limit"}

\* SparkEmbeddingAPI.embed_text from attempt att on, the provider answering
\* every request with b: code 0 returns the decoded vector; an exception and
\* code 11202 continue while attempt < max_retries - 1 and return the
\* fallback vector on the last attempt
RECURSIVE EmbedText(_, _, _, _)
EmbedText(text, att, b, st) ==
    IF b = "ok" THEN [raised |-> FALSE, state |-> st]
    ELSE IF att < MAX_RETRIES - 1 THEN EmbedText(text, att + 1, b, st)
    ELSE LET fb == ApiFallbackVector(text, st)
         IN  [raised |-> fb.raised, state |-> fb.state]

\* SparkEmbeddingAPI.embed_texts from the k-th text on
RECURSIVE EmbedTexts(_, _, _, _)
EmbedTexts(ts, k, b, st) ==
    IF k > Len(ts) THEN [raised |-> FALSE, state |-> st]
    ELSE LET e == EmbedText(ts[k], 0, b, st)
         IN  IF e.raised THEN e ELSE EmbedTexts(ts, k + 1, b, e.state)

\* SparkEmbeddings._embed_with_local_model of the object inst: model.encode,
\* or without a model one fallback vector per text
LocalEmbed(inst, ts, b, st) ==
    IF inst.model = "SentenceTransformer"
    THEN [raised |-> b = "exception", state |-> st]
    ELSE LET r == FallbackLoop(ts, 1, << >>, st)
         IN  [raised |-> r.raised, state |-> r.state]

\* SparkEmbeddings.embed_documents of the object inst
EmbedDocuments(inst, ts, b, st) ==
    IF inst.use_real_spark THEN EmbedTexts(ts, 1, b, st)
    ELSE LocalEmbed(inst, ts, b, st)

\* SparkEmbeddings.embed_query of the object inst
EmbedQuery(inst, text, b, st) ==
    IF inst.use_real_spark THEN EmbedText(text, 0, b, st)
    ELSE LocalEmbed(inst, << text >>, b, st)

\* text_splitter.split_text: a text shorter than a chunk is its only chunk
SplitText(text) == << text >>

\* create_vector_database of the analyzer k: Chroma.from_texts embeds the
\* chunks with the analyzer's embeddings; an exception leaves vector_store as
\* it was and the method returns False
CreateVectorDatabase(app, k, text, b) ==
    LET e == EmbedDocuments(app.insts[k], SplitText(text), b, app.np)
    IN  IF e.raised THEN [app EXCEPT !.np = e.state, !.raised = TRUE]
        ELSE [app EXCEPT !.np = e.state, !.docs[k].vector_store = TRUE]

\* ResumeAnalyzer.process_resume of the analyzer k, text being what
\* extract_text_from_pdf returns ("" when the file cannot be read) and
\* analysis what analyze_resume_structure returns: json.loads of the language
\* model's reply, whatever JSON value that is, or the default dict. A False
\* result makes the handler raise HTTPException(500)
ProcessResume(app, k, text, analysis, b) ==
    IF app.raised THEN app
    ELSE LET read == [app EXCEPT !.docs[k].content = text]
         IN  IF text = "" THEN [read EXCEPT !.raised = TRUE]
             ELSE CreateVectorDatabase(
                      [read EXCEPT !.docs[k].info = analysis], k, text, b)

\* JobAnalyzer.process_job_requirement of the analyzer k, text being the
\* content of the requirement file and structured how
\* extract_structured_job_info ends: parse_llm_response finds no JSON and a
\* ValueError is raised ("none"), or the parsed value, a JSON object or
\* another JSON value, is returned
ProcessJobRequirement(app, k, text, structured, b) ==
    IF app.raised THEN app
    ELSE LET read == [app EXCEPT !.docs[k].content = text]
         IN  IF text = "" \/ structured = "none"
             THEN [read EXCEPT !.raised = TRUE]
             ELSE CreateVectorDatabase(
                      [read EXCEPT !.docs[k].info = structured], k, text, b)

\* analyze_match after the matcher is constructed:
\* candidate_info.get("skills", []) of the state manager's resume analyzer, an
\* AttributeError unless candidate_info is a JSON object
GetResumeSkills(app) ==
    IF app.raised THEN app
    ELSE IF app.docs[app.svc["state_manager._resume_analyzer"]].info = "dict"
    THEN app
    ELSE [app EXCEPT !.raised = TRUE]

\* ResumeJobMatcher.generate_comprehensive_match_report up to the similarity:
\* with both texts non-empty calculate_vector_similarity embeds the resume
\* text and then the job text with the matcher's embeddings, the object
\* constructed last; it catches what they raise
VectorSimilarity(app, b1, b2) ==
    IF app.raised THEN app
    ELSE LET resume_full_text ==
                 app.docs[app.svc["state_manager._resume_analyzer"]].content
             job_full_text ==
                 app.docs[app.svc["state_manager._job_analyzer"]].content
             matcher == app.insts[Len(app.insts)]
             e1 == EmbedQuery(matcher, resume_full_text, b1, app.np)
             e2 == EmbedQuery(matcher, job_full_text, b2, e1.state)
         IN  IF resume_full_text = "" \/ job_full_text = "" THEN app
             ELSE IF e1.raised THEN [app EXCEPT !.np = e1.state]
             ELSE [app EXCEPT !.np = e2.state]

\* search_resume_context / search_job_context of the analyzer k: nothing
\* without a vector store; otherwise similarity_search embeds the query, and
\* what it raises is caught
SearchContext(app, k, query, b) ==
    IF ~app.docs[k].vector_store THEN app
    ELSE [app EXCEPT !.np = EmbedQuery(app.insts[k], query, b, app.np).state]

App == [raised |-> FALSE, insts |-> embedding_instances, svc |-> services,
        docs |-> documents, ups |-> uploads, np |-> np_random_state]

\* the analyzers something refers to: a holder, or the local variables
\* resume_analyzer and job_analyzer of a suspended /upload request
Referenced(app) ==
    {app.svc[h] : h \in ServiceHolders}
        \cup {app.ups[u].resume_analyzer : u \in UploadRequests}
        \cup {app.ups[u].job_analyzer : u \in UploadRequests}

\* an analyzer nothing refers to any more is freed, its content with it
Collect(app) ==
    [k \in 1..Len(app.docs) |->
        IF k \in Referenced(app) THEN app.docs[k] ELSE NoDocument]

\* startup_event: the import of preload_embeddings fails, the module does not
\* define it; the except clause logs the error and the application starts
StartupEvent ==
    /\ startup = "pending"
    /\ startup' = "serving"
    /\ UNCHANGED << credVars, interviewVars, current_match_report, generating, use_real_spark, model, np_random_state, pc, callVars,
                    fallbacks, testVars, cacheVars, embedding_instances,
                    services, documents, uploads, compared, statsVars,
                    normalized >>

\* a request handler returns to the event loop, at an await or at its end,
\* with or without an exception: what it constructed, stored and drew stays
Commit(app) ==
    /\ startup = "serving"
    /\ Len(app.insts) <= MaxInstances
    /\ embedding_instances' = app.insts
    /\ services' = app.svc
    /\ documents' = Collect(app)
    /\ uploads' = app.ups
    /\ np_random_state' = app.np
    /\ UNCHANGED << credVars, interviewVars, generating, use_real_spark, model, pc, callVars,
                    fallbacks, testVars, cacheVars, startup, compared,
                    statsVars, normalized >>

\* POST /api/resume/upload of a .pdf file: the analyzer of api.resume,
\* constructed once, processes the file. st is what loading the local model
\* does in a constructor, text the text of the file, analysis the result of
\* the language model's analysis, b the backend's behaviour
UploadResume(st, text, analysis, b) ==
    /\ \E got \in {GetOrConstruct(App, "api.resume.resume_analyzer",
                                   "ResumeAnalyzer", st)} :
       \E app \in {ProcessResume(got, got.svc["api.resume.resume_analyzer"],
                                  text, analysis, b)} :
          Commit(app)
    /\ UNCHANGED current_match_report

\* POST /api/job/upload-requirement: the analyzer of api.job, constructed
\* once, processes the requirement file
UploadJobRequirement(st, text, structured, b) ==
    /\ \E got \in {GetOrConstruct(App, "api.job.job_analyzer",
                                   "JobAnalyzer", st)} :
       \E app \in {ProcessJobRequirement(got, got.svc["api.job.job_analyzer"],
                                         text, structured, b)} :
          Commit(app)
    /\ UNCHANGED current_match_report

\* POST /upload of a .pdf and a .txt file, request u, up to
\* content = await resume_file.read(): reset_analyzers(),
\* reset_current_match_report(), get_resume_analyzer() and get_job_analyzer()
\* into local variables; a constructor that raises ends the request with 500
UploadFilesBegin(u, st) ==
    /\ uploads[u].pc = "idle"
    /\ \E resume_analyzer \in {GetOrConstruct(ResetAnalyzers(App),
                                               "state_manager._resume_analyzer",
                                               "ResumeAnalyzer", st)} :
       \E job_analyzer \in {GetOrConstruct(resume_analyzer,
                                            "state_manager._job_analyzer",
                                            "JobAnalyzer", st)} :
       \E app \in {IF job_analyzer.raised THEN job_analyzer
                   ELSE [job_analyzer EXCEPT
                           !.ups[u] =
                               [pc |-> "read_resume",
                                resume_analyzer |->
                                    job_analyzer.svc[
                                        "state_manager._resume_analyzer"],
                                job_analyzer |->
                                    job_analyzer.svc[
                                        "state_manager._job_analyzer"]]]} :
          Commit(app)
    /\ current_match_report' \in ResetCurrentMatchReport(current_match_report)

\* request u from the end of await resume_file.read() to
\* job_content = await job_file.read(): process_resume of the analyzer in
\* the local variable, whether or not the state manager still holds it; a
\* False result ends the request with 500
UploadFilesProcess(u, text, analysis, b) ==
    /\ uploads[u].pc = "read_resume"
    /\ \E processed \in {ProcessResume(App, uploads[u].resume_analyzer, text,
                                        analysis, b)} :
       \E app \in {[processed EXCEPT
                      !.ups[u] = IF processed.raised THEN NoUpload
                                 ELSE [@ EXCEPT !.pc = "read_job"]]} :
          Commit(app)
    /\ UNCHANGED current_match_report

\* request u from the end of await job_file.read() on:
\* job_analyzer.process_job_content, a method JobAnalyzer does not have; the
\* AttributeError ends the request with 500
UploadFilesEnd(u) ==
    /\ uploads[u].pc = "read_job"
    /\ \E app \in {[App EXCEPT !.ups[u] = NoUpload]} : Commit(app)
    /\ UNCHANGED current_match_report

\* POST /api/match/analyze: get_resume_analyzer(), get_job_analyzer(), then a
\* new ResumeJobMatcher in a local variable on every request, the candidate's
\* skills, the similarity of the two texts, and
\* current_match_report = match_report when nothing raised on the way
\* (analysed)
AnalyzeMatch(st, b1, b2, analysed) ==
    \E resume_analyzer \in {GetOrConstruct(App, "state_manager._resume_analyzer",
                                            "ResumeAnalyzer", st)} :
    \E job_analyzer \in {GetOrConstruct(resume_analyzer,
                                         "state_manager._job_analyzer",
                                         "JobAnalyzer", st)} :
    \E job_matcher \in {IF job_analyzer.raised THEN job_analyzer
                         ELSE ConstructObject(job_analyzer, "ResumeJobMatcher",
                                              st)} :
    \E app \in {VectorSimilarity(GetResumeSkills(job_matcher), b1, b2)} :
        /\ Commit(app)
        /\ current_match_report' =
              IF ~app.raised /\ analysed THEN TRUE ELSE current_match_report

\* a new /upload request is the first one that is not under way
Arrives(u) == \A v \in 1..(u - 1) : uploads[v].pc # "idle"

\* the documents handed to the analyzers of api.resume and api.job are
\* analysed to JSON objects here; the interview endpoints, which read the
\* information, are explored with both kinds
NextServices ==
    \/ StartupEvent
    \/ \E st \in SentenceTransformerOutcomes, text \in DocumentTexts,
          b \in BackendBehaviours : UploadResume(st, text, "dict", b)
    \/ \E st \in SentenceTransformerOutcomes, text \in DocumentTexts,
          structured \in {"none", "dict"}, b \in BackendBehaviours :
          UploadJobRequirement(st, text, structured, b)
    \/ \E u \in UploadRequests, st \in SentenceTransformerOutcomes :
          Arrives(u) /\ UploadFilesBegin(u, st)
    \/ \E u \in UploadRequests, text \in DocumentTexts,
          analysis \in InfoKinds, b \in BackendBehaviours :
          UploadFilesProcess(u, text, analysis, b)
    \/ \E u \in UploadRequests : UploadFilesEnd(u)
    \/ \E st \in SentenceTransformerOutcomes, b1, b2 \in BackendBehaviours,
          analysed \in BOOLEAN : AnalyzeMatch(st, b1, b2, analysed)

\* the object under call of the other specifications plays no part here
InitServices == Init /\ use_real_spark

SpecServices == InitServices /\ [][NextServices]_vars

----------------------------------------------------------------------------
(* The interview endpoints *)

\* the ids that are keys of interview_sessions
Registered == {id \in SessionIds : interview_sessions[id].kind = "session"}

\* what a question generation of the EnhancedInterviewGenerator does: it
\* returns parsed JSON with a "question" entry, raises, or returns parsed JSON
\* without one (next_question_obj["question"] then raises KeyError)
GenerationOutcomes == {"question", "raises", "no_question"}

\* how far submit_answer gets, with both analyzers set, before anything
\* raises
SubmitOutcomes ==
    {"decision_raises", "generation_raises", "no_question", "question"}

\* the AIMessage entries of all the registered sessions
TotalAnswers ==
    LET Answers(id) ==
            Len(SelectSeq(interview_sessions[id].conversation_history,
                          LAMBDA msg : msg.type = "AIMessage"))
        RECURSIVE Sum(_)
        Sum(ids) == IF ids = {} THEN 0
                    ELSE LET id == CHOOSE x \in ids : TRUE
                         IN  Answers(id) + Sum(ids \ {id})
    IN  Sum(Registered)

\* get_resume_analyzer() of api.resume is not None
ResumeAnalyzerSet == services["api.resume.resume_analyzer"] # 0

\* get_job_analyzer() of api.job is not None
JobAnalyzerSet == services["api.job.job_analyzer"] # 0

\* resume_analyzer.get_candidate_info() of the analyzer of api.resume
GetCandidateInfo == documents[services["api.resume.resume_analyzer"]].info

\* job_analyzer.get_job_info() of the analyzer of api.job
GetJobInfo == documents[services["api.job.job_analyzer"]].info

InterviewFrame == << credVars, generating, use_real_spark, model,
                     pc, callVars, fallbacks, testVars,
                     cacheVars, appVars, compared, statsVars, normalized,
                     current_match_report >>

\* del interview_sessions[session_id]
DelSession(sessions, id) == [sessions EXCEPT ![id] = NoSession]

\* the duplicate check left out
IsRegisteredNever(sessions, id) == FALSE

\* request.session_id in interview_sessions
IsRegistered(sessions, id) == sessions[id].kind = "session"

\* POST /api/interview/start. built: the generator can be constructed, which
\* is tried only while enhanced_generator is None; g: what generating the
\* first question does. The session is registered before
\* the question is generated; the question is appended and counted before
\* {**candidate_info, ..., "job_title": job_info.get(...)} is built, which
\* raises unless both are JSON objects
StartInterview(id, built, g) ==
    /\ startup = "serving"
    /\ IF IsRegistered(interview_sessions, id)
       THEN /\ response' = HttpResponse("start", id, 400, "exists")
            /\ UNCHANGED << interview_sessions, enhanced_generator >>
       ELSE IF ~ResumeAnalyzerSet \/ ~JobAnalyzerSet \/ ~current_match_report
       THEN /\ response' = HttpResponse("start", id, 400, "prerequisite")
            /\ UNCHANGED << interview_sessions, enhanced_generator >>
       ELSE IF ~enhanced_generator /\ ~built
       THEN /\ response' = HttpResponse("start", id, 500, "failed")
            /\ UNCHANGED << interview_sessions, enhanced_generator >>
       ELSE \E session \in {NewSession(GetCandidateInfo)} :
            \E asked \in {[session EXCEPT
                             !.conversation_history = << HumanMessage(FALSE) >>,
                             !.question_count = 1]} :
            /\ enhanced_generator' = TRUE
            /\ IF g # "question"
               THEN /\ interview_sessions' =
                         [interview_sessions EXCEPT ![id] = session]
                    /\ response' = HttpResponse("start", id, 500, "failed")
               ELSE IF GetCandidateInfo # "dict" \/ GetJobInfo # "dict"
               THEN /\ interview_sessions' =
                         [interview_sessions EXCEPT ![id] = asked]
                    /\ response' = HttpResponse("start", id, 500, "failed")
               ELSE /\ interview_sessions' =
                         [interview_sessions EXCEPT
                            ![id] = [asked EXCEPT !.candidate_info = "dict"]]
                    /\ response' = HttpResponse("start", id, 200, "question")
    /\ UNCHANGED << np_random_state, InterviewFrame >>

\* follow_up_decision.get("should_follow_up", False) and
\* session.follow_up_count < 2
ShouldFollowUp(decision, session) == decision /\ session.follow_up_count < 2

\* the body of submit_answer's try block on the session, as far as it gets:
\* the answer is appended, the contexts are searched, the decision is taken,
\* question_count is incremented, the question is generated, follow_up_count
\* is updated, the question is read from the result and appended
AnswerSession(session, outcome, decision) ==
    LET answered == [session EXCEPT
                       !.conversation_history = Append(@, AIMessage)]
        follow   == ShouldFollowUp(decision, session)
        counted  == [answered EXCEPT !.question_count = @ + 1]
        updated  == IF follow
                    THEN [counted EXCEPT !.follow_up_count = @ + 1]
                    ELSE [counted EXCEPT !.follow_up_count = 0]
        asked    == [updated EXCEPT
                       !.conversation_history = Append(@, HumanMessage(follow))]
    IN  CASE outcome \in {"search_raises", "decision_raises"} -> answered
          [] outcome = "generation_raises" -> counted
          [] outcome = "no_question" -> updated
          [] outcome = "question" -> asked

\* POST /api/interview/answer with the answer message: the resume context is
\* searched under backend behaviour b1, the job context under b2 (an
\* AttributeError when the job analyzer is None), and the rest gets as far as
\* outcome says
SubmitAnswer(id, message, b1, b2, outcome, decision) ==
    /\ startup = "serving"
    /\ IF ~IsRegistered(interview_sessions, id)
       THEN /\ response' = HttpResponse("answer", id, 404, "not_found")
            /\ UNCHANGED << interview_sessions, np_random_state >>
       ELSE IF ~ResumeAnalyzerSet
       THEN /\ response' = HttpResponse("answer", id, 400, "prerequisite")
            /\ UNCHANGED << interview_sessions, np_random_state >>
       ELSE \E resume_context \in
                 {SearchContext(App, services["api.resume.resume_analyzer"],
                                message, b1)},
               reached \in {IF JobAnalyzerSet THEN outcome ELSE "search_raises"} :
            \E job_context \in
                 {IF JobAnalyzerSet
                  THEN SearchContext(resume_context,
                                     services["api.job.job_analyzer"],
                                     message, b2)
                  ELSE resume_context} :
                /\ TotalAnswers < MaxAnswers
                /\ interview_sessions' =
                     [interview_sessions EXCEPT
                        ![id] = AnswerSession(@, reached, decision)]
                /\ np_random_state' = job_context.np
                /\ response' = IF reached = "question"
                               THEN HttpResponse("answer", id, 200, "question")
                               ELSE HttpResponse("answer", id, 500, "failed")
    /\ UNCHANGED << enhanced_generator, InterviewFrame >>

\* GET /api/interview/history/{session_id}
GetInterviewHistory(id) ==
    /\ startup = "serving"
    /\ response' = IF IsRegistered(interview_sessions, id)
                   THEN HttpResponse("history", id, 200, "history")
                   ELSE HttpResponse("history", id, 404, "not_found")
    /\ UNCHANGED << interview_sessions, enhanced_generator, np_random_state,
                    InterviewFrame >>

\* POST /api/interview/end/{session_id}: the session is deleted, and then the
\* summary reads session.candidate_info.get('name', ...), an AttributeError
\* no except clause catches unless candidate_info is a JSON object
EndInterview(id) ==
    /\ startup = "serving"
    /\ IF IsRegistered(interview_sessions, id)
       THEN /\ interview_sessions' = DelSession(interview_sessions, id)
            /\ response' =
                 IF interview_sessions[id].candidate_info = "dict"
                 THEN HttpResponse("end", id, 200, "summary")
                 ELSE HttpResponse("end", id, 500, "failed")
       ELSE /\ response' = HttpResponse("end", id, 404, "not_found")
            /\ UNCHANGED interview_sessions
    /\ UNCHANGED << enhanced_generator, np_random_state, InterviewFrame >>

StartRequest(id) ==
    \E built \in BOOLEAN, g \in GenerationOutcomes : StartInterview(id, built, g)

\* an answer "a", the backends answering the searches
AnswerRequest(id) ==
    \E outcome \in SubmitOutcomes, decision \in BOOLEAN :
        SubmitAnswer(id, "a", "ok", "ok", outcome, decision)

\* the endpoints the interview endpoints depend on, with documents "a" whose
\* information is of the kinds infos, the local model loading wherever it
\* is constructed, the backends answering and one /upload request at a time
Prerequisites(infos) ==
    \/ StartupEvent
    \/ \E analysis \in infos : UploadResume("loaded", "a", analysis, "ok")
    \/ \E structured \in infos :
          UploadJobRequirement("loaded", "a", structured, "ok")
    \/ UploadFilesBegin(1, "loaded")
    \/ UploadFilesProcess(1, "a", "dict", "ok")
    \/ UploadFilesEnd(1)
    \/ \E analysed \in BOOLEAN : AnalyzeMatch("loaded", "ok", "ok", analysed)

NextPrerequisites == Prerequisites(InfoKinds)

\* two session ids, few answers
NextInterview ==
    \/ NextPrerequisites
    \/ \E id \in SessionIds : StartRequest(id)
    \/ \E id \in SessionIds :
          /\ id \in Registered => TotalAnswers < MaxSharedAnswers
          /\ AnswerRequest(id)
    \/ \E id \in SessionIds : GetInterviewHistory(id)
    \/ \E id \in SessionIds : EndInterview(id)

InitInterview == Init /\ use_real_spark

SpecInterview == InitInterview /\ [][NextInterview]_vars

\* one session id, a longer interview, the information of the documents
\* being JSON objects
NextAnswers ==
    \/ Prerequisites({"dict"})
    \/ StartRequest("s1")
    \/ AnswerRequest("s1")
    \/ GetInterviewHistory("s1")
    \/ EndInterview("s1")

SpecAnswers == InitInterview /\ [][NextAnswers]_vars

----------------------------------------------------------------------------
(* embed_query(t) and then embed_documents([t])[0], the backend behaving   *)
(* the same way in both calls                                               *)

\* embed_documents(ts)[0] of the caller; an exception stays an exception
FirstOf(res) == IF res.kind = "list" THEN VectorResult(res.value[1]) ELSE res

\* how a call ended: by an exception, or by returning its value
Ending(res) == IF res.kind = "raised" THEN "raised" ELSE "returned"

\* what the call that has just ended did: its value, the request bodies it
\* sent and the lists it handed to model.encode
CallRecord ==
    [result |-> FirstOf(result),
     bodies |-> IF use_real_spark
                THEN [k \in 1..last_embed.requests |->
                         GetBody(last_embed.text, last_embed.domain)]
                ELSE << >>,
     model_inputs |-> [k \in 1..Len(model_calls) |-> texts],
     answers |-> IF use_real_spark
                 THEN [outcomes |-> last_embed.outcomes,
                       response |-> last_embed.response]
                 ELSE [outcomes |-> << >>, response |-> Ending(result)]]

\* the running call is answered as the recorded query call was: attempt by
\* attempt the same kind of answer, the last answer being the same response;
\* on the local backend model.encode raises if and only if it did then
SameBehaviour ==
    IF pc = "embed_text"
    THEN /\ IsPrefix(outcomes, compared.query.answers.outcomes)
         /\ Len(outcomes) < Len(compared.query.answers.outcomes)
    ELSE IF use_real_spark
    THEN /\ last_embed.outcomes = compared.query.answers.outcomes
         /\ last_embed.response = compared.query.answers.response
    ELSE Ending(result) = compared.query.answers.response

\* embed_query(t), entered
QueryCall(t) ==
    /\ pc = "idle"
    /\ compared.kind = "none"
    /\ StartCall("embed_query", << t >>)
    /\ compared' = [kind |-> "query", text |-> t]
    /\ UNCHANGED << credVars, interviewVars, current_match_report, generating, use_real_spark, model, np_random_state, fallbacks, testVars,
                    cacheVars, appVars, statsVars, normalized >>

\* the backend at work for embed_query(t)
QueryStep ==
    /\ compared.kind = "query"
    /\ (EmbedTextAttempt \/ EmbedWithLocalModel)

\* embed_query(t) has ended; embed_documents([t]), entered
DocumentsCall ==
    /\ pc = "done"
    /\ compared.kind = "query"
    /\ compared' = [kind |-> "documents", text |-> compared.text,
                    query |-> CallRecord]
    /\ StartCall("embed_documents", texts)
    /\ UNCHANGED << credVars, interviewVars, current_match_report, generating, use_real_spark, model, np_random_state, fallbacks, testVars,
                    cacheVars, appVars, statsVars, normalized >>

\* the backend at work for embed_documents([t]), behaving as it did for the
\* query
DocumentsStep ==
    /\ compared.kind = "documents"
    /\ (EmbedTextAttempt \/ EmbedWithLocalModel)
    /\ SameBehaviour'

\* embed_documents([t]) has ended: its [0] stands next to the query's vector
CompareQueryWithDocuments ==
    /\ pc = "done"
    /\ compared.kind = "documents"
    /\ compared' = [kind |-> "compared", text |-> compared.text,
                    query |-> compared.query, documents |-> CallRecord]
    /\ pc' = "idle"
    /\ EndCall
    /\ UNCHANGED << credVars, interviewVars, current_match_report, generating, use_real_spark, model, np_random_state, fallbacks, testVars,
                    cacheVars, appVars, statsVars, normalized >>

NextEquivalence ==
    \/ \E t \in StrTexts : QueryCall(t)
    \/ QueryStep
    \/ DocumentsCall
    \/ DocumentsStep
    \/ CompareQueryWithDocuments

SpecEquivalence == Init /\ [][NextEquivalence]_vars

----------------------------------------------------------------------------
(* The service facade's statistics: EmbedDocuments by concurrent callers,   *)
(* each call probing the cache, computing its misses, inserting them and    *)
(* then updating the counters under the lock                                *)

\* hashes of the normalized texts the callers embed
StatsKeys == {1, 2}

\* the lists of normalized texts of one EmbedDocuments call: one or two texts
StatsInputs == UNION {[1..n -> StatsKeys] : n \in {1, 2}}

\* the number of positions of keys whose key is resident
HitCount(keys, order) ==
    Cardinality({k \in 1..Len(keys) : keys[k] \in Resident(order)})

\* the insertion order after Put(key, _)
OrderAfterPut(order, key) ==
    IF key \in Resident(order) THEN order
    ELSE Append(IF Len(order) >= cacheSize THEN CacheEvict(order) ELSE order, key)

\* the insertion order after the Puts of keys[k..], in order
RECURSIVE OrderAfterPuts(_, _, _)
OrderAfterPuts(order, keys, k) ==
    IF k > Len(keys) THEN order
    ELSE OrderAfterPuts(OrderAfterPut(order, keys[k]), keys, k + 1)

\* a counter update that counts the misses only as requests
StatsUpdateMissesOnly(st, n, hits) ==
    [totalRequests |-> st.totalRequests + (n - hits),
     cacheHits |-> st.cacheHits + hits]

\* step 6: totalRequests += len(texts); cacheHits += hit count
StatsUpdate(st, n, hits) ==
    [totalRequests |-> st.totalRequests + n, cacheHits |-> st.cacheHits + hits]

\* steps 1-2 of EmbedDocuments(texts): normalize, probe the cache for each text
StatsProbe(c, keys) ==
    /\ pc = "idle"
    /\ callers[c].pc = "idle"
    /\ callers' = [callers EXCEPT ![c] =
                     [pc |-> "probed", keys |-> keys,
                      hits |-> HitCount(keys, cache_order)]]
    /\ UNCHANGED << credVars, interviewVars, current_match_report, generating, use_real_spark, model, np_random_state, pc, callVars,
                    fallbacks, testVars, cacheVars, appVars, compared, stats,
                    completed, stats_log, normalized >>

\* steps 3-4: the backend computes the misses outside the lock; then each new
\* vector is put into the cache
StatsInsert(c) ==
    /\ callers[c].pc = "probed"
    /\ callers' = [callers EXCEPT ![c].pc = "inserted"]
    /\ cache_order' = OrderAfterPuts(cache_order, callers[c].keys, 1)
    /\ UNCHANGED << credVars, interviewVars, current_match_report, generating, use_real_spark, model, np_random_state, pc, callVars,
                    fallbacks, testVars, cache_store, cache_log, appVars,
                    compared, stats, completed, stats_log, normalized >>

\* steps 5-6: the output is reassembled and the counters are updated under
\* the lock; the call returns
StatsComplete(c) ==
    /\ callers[c].pc = "inserted"
    /\ completed.calls < MaxCompleted
    /\ stats' = StatsUpdate(stats, Len(callers[c].keys), callers[c].hits)
    /\ completed' = [calls |-> completed.calls + 1,
                     texts |-> completed.texts + Len(callers[c].keys),
                     hits  |-> completed.hits + callers[c].hits]
    /\ stats_log' = [op |-> "update", before |-> stats]
    /\ callers' = [callers EXCEPT ![c] = IdleCaller]
    /\ UNCHANGED << credVars, interviewVars, current_match_report, generating, use_real_spark, model, np_random_state, pc, callVars,
                    fallbacks, testVars, cacheVars, appVars, compared, normalized >>

\* the explicit reset of the counters
StatsReset ==
    /\ stats # ZeroStats
    /\ stats' = ZeroStats
    /\ completed' = NoCompleted
    /\ stats_log' = [op |-> "reset", before |-> stats]
    /\ UNCHANGED << credVars, interviewVars, current_match_report, generating, use_real_spark, model, np_random_state, pc, callVars,
                    fallbacks, testVars, cacheVars, appVars, compared, callers,
                    normalized >>

NextStats ==
    \/ \E c \in Callers, keys \in StatsInputs : StatsProbe(c, keys)
    \/ \E c \in Callers : StatsInsert(c)
    \/ \E c \in Callers : StatsComplete(c)
    \/ StatsReset

\* the counters do not depend on the backend: one configuration is enough
InitStats == Init /\ use_real_spark

SpecStats == InitStats /\ [][NextStats]_vars

----------------------------------------------------------------------------
(* The fallback generators on sample values: vectors of SampleDim samples  *)
(* stand for the 512 and 384 samples of the code. A component is kept      *)
(* exactly, as num / den2 ** 0.5.                                            *)

\* the values a sample takes in the model
SampleValues == {-2, 0, 1}

\* what np.random.normal(...).tolist() may yield
Draws == [1..SampleDim -> SampleValues]

\* the texts the generators are called with: the empty one and another
NormalizeTexts == {"", "a"}

\* the samples numpy yields after np.random.seed(s) are fixed by s; none has
\* been observed yet
NoDraws == [s \in {Seed(t) : t \in NormalizeTexts} |-> << >>]

\* the samples observed so far, by seed
ObservedDraws == IF normalized.kind = "none" THEN NoDraws ELSE normalized.draws

\* sum(x*x for x in vector) over the components from k on
RECURSIVE SumSquares(_, _)
SumSquares(xs, k) ==
    IF k > Len(xs) THEN 0 ELSE xs[k] * xs[k] + SumSquares(xs, k + 1)

\* the normalisation dividing by the squared magnitude
NormalizeValuesBySquare(xs) ==
    LET m2 == SumSquares(xs, 1)
    IN  IF m2 > 0 THEN [k \in 1..Len(xs) |-> [num |-> xs[k], den2 |-> m2 * m2]]
        ELSE [k \in 1..Len(xs) |-> [num |-> xs[k], den2 |-> 1]]

\* magnitude = sum(x*x for x in vector) ** 0.5
\* if magnitude > 0: vector = [x / magnitude for x in vector]
NormalizeValues(xs) ==
    LET m2 == SumSquares(xs, 1)
    IN  IF m2 > 0 THEN [k \in 1..Len(xs) |-> [num |-> xs[k], den2 |-> m2]]
        ELSE [k \in 1..Len(xs) |-> [num |-> xs[k], den2 |-> 1]]

\* _generate_fallback_vector(text) of the client (dim 512) or of the wrapper
\* (dim 384): the generator is seeded from the text's md5 and advanced by
\* dim samples, xs being the samples numpy yields for that seed, and the
\* normalised vector is returned
NormalizeDraw(text, dim, xs) ==
    /\ pc = "idle"
    /\ dim = API_FALLBACK_DIM => use_real_spark
    /\ ObservedDraws[Seed(text)] \in {<< >>, xs}
    /\ \E fb \in {GenerateFallback(text, dim, np_random_state)} :
          /\ np_random_state' = fb.state
          /\ normalized' = [kind |-> "generated", text |-> text, dim |-> dim,
                            draw |-> xs, vec |-> NormalizeValues(xs),
                            raised |-> fb.raised,
                            draws |-> [ObservedDraws EXCEPT ![Seed(text)] = xs]]
    /\ UNCHANGED << credVars, interviewVars, current_match_report, generating, use_real_spark, model, pc, callVars,
                    fallbacks, testVars, cacheVars, appVars, compared,
                    statsVars >>

NextNormalize ==
    \E t \in NormalizeTexts, dim \in {API_FALLBACK_DIM, LOCAL_FALLBACK_DIM},
       xs \in Draws : NormalizeDraw(t, dim, xs)

\* an object of the remote backend: it has the client's generator and the
\* wrapper's
InitNormalize == Init /\ use_real_spark

SpecNormalize == InitNormalize /\ [][NextNormalize]_vars

----------------------------------------------------------------------------
(* Properties of the remote client's embed_text *)

\* an embed_text call has just ended, by a return or by an exception
EmbedEnded == last_embed.kind # "none"

AllRateLimited == [k \in 1..MAX_RETRIES |-> "rate_limit"]

RateLimitedTwiceThenOk == << "rate_limit", "rate_limit", "ok" >>

\* C1: whatever the provider answers on each attempt, embed_text of a str text
\* ends within MAX_RETRIES attempts by returning a vector (decoded or
\* fallback), never by an exception.
C1_EmbedTextAlwaysReturnsVector ==
    /\ pc = "embed_text" => attempt < MAX_RETRIES /\ requests = attempt
    /\ (EmbedEnded /\ last_embed.text \in StrTexts) =>
          /\ last_embed.kind = "returned"
          /\ last_embed.vec.kind \in {"api", "fallback"}
          /\ last_embed.requests <= MAX_RETRIES

\* a call that met three different failures and still returned a vector
C1_Witness ==
    /\ EmbedEnded
    /\ last_embed.text = "a"
    /\ last_embed.outcomes = << "exception", "http_error", "bad_payload" >>
    /\ last_embed.kind = "returned"
    /\ last_embed.vec.kind = "fallback"

\* C3: when attempts 1 and 2 are answered with the rate-limit code and attempt
\* 3 with success, the call makes exactly three requests, each retry sleeps
\* longer than the sleep before it, and the call returns the vector decoded
\* from the third response.
C3_RateLimitedTwiceThenSuccess ==
    (EmbedEnded /\ IsPrefix(last_embed.outcomes, RateLimitedTwiceThenOk)) =>
        /\ last_embed.outcomes = RateLimitedTwiceThenOk
        /\ last_embed.requests = 3
        /\ Len(last_embed.sleeps) = 3
        /\ \A k \in 2..3 : last_embed.sleeps[k] > last_embed.sleeps[k - 1]
        /\ last_embed.kind = "returned"
        /\ last_embed.vec =
             DecodeVector(GetBody(last_embed.text, last_embed.domain),
                          last_embed.response)
        /\ last_embed.vec.kind = "api"

C3_Witness ==
    /\ EmbedEnded
    /\ last_embed.outcomes = RateLimitedTwiceThenOk
    /\ last_embed.sleeps = << 5, 20, 40 >>
    /\ last_embed.vec.kind = "api"

\* C4: when every one of the MAX_RETRIES attempts is answered with the
\* rate-limit code, embed_text(t) of a str text returns exactly the fallback
\* vector of t in the client's dimension.
C4_ExhaustedRetriesReturnFallback ==
    (EmbedEnded /\ last_embed.text \in StrTexts
       /\ IsPrefix(last_embed.outcomes, AllRateLimited)) =>
        /\ last_embed.outcomes = AllRateLimited
        /\ last_embed.kind = "returned"
        /\ last_embed.vec = Generate(last_embed.text, API_FALLBACK_DIM)

C4_Witness ==
    /\ EmbedEnded
    /\ last_embed.outcomes = AllRateLimited
    /\ last_embed.text = "   "
    /\ last_embed.vec = Generate("   ", API_FALLBACK_DIM)

\* C5: an attempt answered with a provider code other than 0 and the
\* rate-limit code is the last request of the call, on any attempt, and the
\* call returns the fallback vector; an attempt answered with the rate-limit
\* code ends the call only when it is the last attempt.
C5_HardErrorAbortsRateLimitRetries ==
    /\ pc = "embed_text" /\ texts[i] \in StrTexts =>
          \A k \in 1..Len(outcomes) : outcomes[k] # "other_code"
    /\ (EmbedEnded /\ last_embed.text \in StrTexts) =>
          LET n == Len(last_embed.outcomes)
          IN  /\ \A k \in 1..n :
                    last_embed.outcomes[k] = "other_code" => k = n
              /\ last_embed.outcomes[n] = "other_code" =>
                    /\ last_embed.kind = "returned"
                    /\ last_embed.vec = Generate(last_embed.text, API_FALLBACK_DIM)
              /\ last_embed.outcomes[n] = "rate_limit" => n = MAX_RETRIES

\* a hard error on the second attempt, after a rate limit that was retried
C5_Witness ==
    /\ EmbedEnded
    /\ last_embed.text = "a"
    /\ last_embed.outcomes = << "rate_limit", "other_code" >>
    /\ last_embed.requests = 2
    /\ last_embed.vec.kind = "fallback"

\* a network or transport failure: requests.post (or reading its body)
\* raised, or the HTTP status is not 200
TransportFailures == {"exception", "http_error"}

\* C22: a transport failure is handled like a rate-limit answer: on an
\* attempt that is not the last the call goes on to the next attempt, on the
\* last attempt the call returns the fallback vector of the text, and the
\* call never ends with an exception.
C22_TransportFailureRetriedLikeRateLimit ==
    (EmbedEnded /\ last_embed.text \in StrTexts) =>
        LET n == Len(last_embed.outcomes)
        IN  /\ last_embed.kind = "returned"
            /\ last_embed.outcomes[n] \in TransportFailures \cup {"rate_limit"} =>
                  /\ n = MAX_RETRIES
                  /\ last_embed.vec = Generate(last_embed.text, API_FALLBACK_DIM)

\* a raised request and two HTTP errors, then the fallback vector
C22_Witness ==
    /\ EmbedEnded
    /\ last_embed.text = "a"
    /\ last_embed.outcomes = << "exception", "http_error", "http_error" >>
    /\ last_embed.kind = "returned"
    /\ last_embed.vec = Generate("a", API_FALLBACK_DIM)

\* the answers after which embed_text goes on to another attempt: the
\* rate-limit code, an HTTP status other than 200, and an exception (raised
\* by requests.post, by response.json() or by the decoding of the payload)
RetriedOutcomes == {"rate_limit", "http_error", "exception", "bad_payload"}

\* C19: one embed_text call sends at least 1 and at most MAX_RETRIES requests,
\* whatever the provider answers, and then ends; a request is followed by
\* another one only when it was answered with the rate-limit code, an HTTP
\* status other than 200, or an exception.
C19_RequestsBoundedAndRetriedOnFailureOnly ==
    /\ pc = "embed_text" =>
          /\ requests = Len(outcomes)
          /\ requests < MAX_RETRIES
          /\ texts[i] \in StrTexts =>
                \A k \in 1..Len(outcomes) : outcomes[k] \in RetriedOutcomes
    /\ EmbedEnded =>
          /\ last_embed.requests = Len(last_embed.outcomes)
          /\ last_embed.requests >= 1
          /\ last_embed.requests <= MAX_RETRIES
          /\ last_embed.text \in StrTexts =>
                \A k \in 1..(last_embed.requests - 1) :
                    last_embed.outcomes[k] \in RetriedOutcomes

\* three requests, each of the first two failing in a different way
C19_Witness ==
    /\ EmbedEnded
    /\ last_embed.text = ""
    /\ last_embed.requests = MAX_RETRIES
    /\ last_embed.outcomes = << "http_error", "exception", "ok" >>
    /\ last_embed.kind = "returned"

\* the sleeps of a call that makes all its attempts: 0.5 s, then 2 s, 4 s
SleepSchedule ==
    [k \in 1..MAX_RETRIES |->
        IF k = 1 THEN FIRST_CALL_DELAY ELSE RETRY_DELAY * Pow2(k - 1)]

\* C20: within one embed_text call every request is preceded by exactly one
\* sleep: 0.5 s before the first attempt and RETRY_DELAY * 2^k before retry
\* attempt k, that is 2 s and 4 s; the pacing delay is not slept before a
\* retry and the backoff not before the first attempt.
C20_OneSleepBeforeEachRequest ==
    /\ SleepSchedule = << 5, 20, 40 >>
    /\ pc = "embed_text" =>
          /\ Len(sleeps) = requests
          /\ IsPrefix(sleeps, SleepSchedule)
    /\ EmbedEnded =>
          /\ Len(last_embed.sleeps) = last_embed.requests
          /\ IsPrefix(last_embed.sleeps, SleepSchedule)

\* a call whose three requests all met an HTTP error slept 0.5 s, 2 s and 4 s
C20_Witness ==
    /\ EmbedEnded
    /\ last_embed.outcomes = << "http_error", "http_error", "http_error" >>
    /\ last_embed.requests = 3
    /\ last_embed.sleeps = SleepSchedule

----------------------------------------------------------------------------
(* Properties of the wrapper calls *)

\* v is the embedding of text t: decoded from the provider's answer to a
\* request carrying t, the local model's row for t, or the fallback vector
\* of t
IsEmbeddingOf(v, t) ==
    \/ v.kind = "api" /\ v.text = t
    \/ v.kind = "model" /\ v.text = t
    \/ v.kind = "fallback" /\ v.seed = Seed(t) /\ v.offset = 0

\* C2: embed_documents(texts) of a non-empty list of str texts returns a list
\* of exactly len(texts) vectors whose i-th vector is the embedding of the
\* i-th text, on the remote and on the local backend, whatever failed on the
\* way.
C2_DocumentsOneVectorPerTextInOrder ==
    (pc = "done" /\ op = "embed_documents"
       /\ \A k \in 1..Len(texts) : texts[k] \in StrTexts) =>
        /\ result.kind = "list"
        /\ Len(result.value) = Len(texts)
        /\ \A k \in 1..Len(texts) : IsEmbeddingOf(result.value[k], texts[k])

\* C10: empty-like inputs are embedded, not rejected: embed_query("") returns
\* a vector, and embed_documents(["", "   ", None]) returns three vectors;
\* neither raises.
C10_EmptyLikeInputsAreEmbedded ==
    /\ (pc = "done" /\ op = "embed_query" /\ texts = << "" >>) =>
          result.kind = "vector"
    /\ (pc = "done" /\ op = "embed_documents" /\ texts = EmptyLikeTexts) =>
          /\ result.kind = "list"
          /\ Len(result.value) = Len(EmptyLikeTexts)

\* C21: embed_texts on n texts makes exactly n embed_text calls, one after
\* another in input order, call k + 1 starting only when the vectors of the
\* first k texts are there, and sleeps the 0.6 s pause exactly n - 1 times:
\* before every call but the first.
C21_OneCallPerTextInOrderPaced ==
    /\ (pc = "embed_text" /\ op = "embed_documents") =>
          /\ i \in 1..Len(texts)
          /\ Len(vectors) = i - 1
          /\ pacing = i - 1
          /\ \A k \in 1..Len(vectors) : IsEmbeddingOf(vectors[k], texts[k])
    /\ (pc = "done" /\ use_real_spark /\ op = "embed_documents"
          /\ result.kind = "list") =>
          /\ i = Len(texts)
          /\ pacing = Len(texts) - 1
          /\ Len(result.value) = Len(texts)
          /\ \A k \in 1..Len(texts) : IsEmbeddingOf(result.value[k], texts[k])

\* two texts embedded by two calls with one pause between them
C21_Witness ==
    /\ pc = "done"
    /\ use_real_spark
    /\ op = "embed_documents"
    /\ texts = << "a", "" >>
    /\ i = 2
    /\ pacing = 1
    /\ result.kind = "list"
    /\ result.value[1].kind = "api"
    /\ result.value[2].kind = "fallback"

\* another request handler enters a wrapper call
AnotherCallStarts ==
    \E o \in {"embed_query", "embed_documents"}, ts \in InputLists : Call(o, ts)

\* a backend call is in progress: embed_text is sleeping or waiting for the
\* provider, or the local backend is encoding
BackendCallInProgress == pc \in {"embed_text", "local"}

\* C24: a caller that is inside a backend call (a request, a retry sleep, a
\* model.encode) holds nothing another caller needs: while the backend call is
\* in progress another caller's request can be taken up and served.
C24_BackendCallDoesNotBlockOthers ==
    BackendCallInProgress => ENABLED AnotherCallStarts

\* C25: the backend is fixed at construction and the domain by the operation:
\* the instance is remote exactly when app_id, api_key and api_secret were all
\* non-empty, every call of a remote instance goes to embed_text and none to
\* the local model, every call of a local instance the other way round, and
\* the requests of embed_documents carry domain "para", those of embed_query
\* domain "query", whatever calls came before.
C25_BackendAndDomainFixedByConstruction ==
    /\ use_real_spark <=> (app_id # "" /\ api_key # "" /\ api_secret # "")
    /\ pc = "embed_text" =>
          /\ use_real_spark
          /\ domain = (IF op = "embed_documents" THEN "para" ELSE "query")
    /\ pc = "local" => ~use_real_spark
    /\ (pc = "done" /\ use_real_spark) =>
          /\ model_calls = << >>
          /\ last_embed.domain = (IF op = "embed_documents" THEN "para" ELSE "query")
    /\ (pc = "done" /\ ~use_real_spark) => last_embed = NoEmbed

\* the second text of an embed_documents call of a remote instance is being
\* requested, the first one having been answered
C25_Witness ==
    /\ app_id # "" /\ api_key # "" /\ api_secret # ""
    /\ pc = "embed_text"
    /\ op = "embed_documents"
    /\ i = 2
    /\ domain = "para"
    /\ last_embed # NoEmbed
    /\ last_embed.domain = "para"

----------------------------------------------------------------------------
(* The fallback generators under the request handlers of the application *)

\* threads that may be switched between any two statements
RunsToNextAwaitPreempted(c) == TRUE

\* the handlers are coroutines of the one event loop of uvicorn.run(app): a
\* handler runs until it awaits or returns, and _generate_fallback_vector has
\* no await between np.random.seed and np.random.normal
RunsToNextAwait(c) == \A d \in Callers \ {c} : generating[d].pc # "seeded"

GeneratorFrame == << credVars, interviewVars, current_match_report, use_real_spark, model, pc, callVars, fallbacks,
                     testVars, cacheVars, appVars, compared, statsVars,
                     normalized >>

\* a request whose handling reaches a fallback generator for text is accepted
RequestArrives(c, text, dim) ==
    /\ generating[c].pc = "idle"
    /\ generating' = [generating EXCEPT
                        ![c] = [pc |-> "pending", text |-> text, dim |-> dim,
                                vec |-> NoVector]]
    /\ UNCHANGED np_random_state
    /\ UNCHANGED GeneratorFrame

\* np.random.seed(seed % (2**32)) of the handler's generator call
GeneratorSeed(c) ==
    /\ generating[c].pc = "pending"
    /\ RunsToNextAwait(c)
    /\ np_random_state' = NpRandomSeed(np_random_state, Seed(generating[c].text))
    /\ generating' = [generating EXCEPT ![c].pc = "seeded"]
    /\ UNCHANGED GeneratorFrame

\* vector = np.random.normal(0, 0.3, dim).tolist(), normalised and returned
GeneratorDraw(c) ==
    /\ generating[c].pc = "seeded"
    /\ RunsToNextAwait(c)
    /\ LET drawn == NpRandomNormal(np_random_state, generating[c].dim)
       IN  /\ np_random_state' = drawn.state
           /\ generating' = [generating EXCEPT
                               ![c].pc = "returned",
                               ![c].vec = Normalize(drawn.samples)]
    /\ UNCHANGED GeneratorFrame

\* the response of the request is sent
RequestEnds(c) ==
    /\ generating[c].pc = "returned"
    /\ generating' = [generating EXCEPT ![c] = NotGenerating]
    /\ UNCHANGED np_random_state
    /\ UNCHANGED GeneratorFrame

NextHandlers ==
    \/ \E c \in Callers, t \in StrTexts,
          dim \in {API_FALLBACK_DIM, LOCAL_FALLBACK_DIM} : RequestArrives(c, t, dim)
    \/ \E c \in Callers : GeneratorSeed(c)
    \/ \E c \in Callers : GeneratorDraw(c)
    \/ \E c \in Callers : RequestEnds(c)

InitHandlers == Init /\ use_real_spark

SpecHandlers == InitHandlers /\ [][NextHandlers]_vars

----------------------------------------------------------------------------
(* Properties of the fallback generators *)

\* C9: the fallback generators are deterministic: any two direct calls with
\* the same text and dimension, wherever they stand in the run and whatever
\* generator calls lie between them, return the same vector, which is the
\* vector a freshly started generator returns for that text and dimension.
C9_FallbackDeterministic ==
    /\ \A j, k \in 1..Len(fallbacks) :
          (fallbacks[j].text = fallbacks[k].text
             /\ fallbacks[j].dim = fallbacks[k].dim) =>
              fallbacks[j].vec = fallbacks[k].vec
    /\ \A k \in 1..Len(fallbacks) :
          fallbacks[k].vec = Generate(fallbacks[k].text, fallbacks[k].dim)

\* the same (text, dimension) generated twice with two other generations,
\* one of them by the other generator, in between
C9_Witness ==
    /\ Len(fallbacks) = 4
    /\ fallbacks[1].text = "a" /\ fallbacks[1].dim = API_FALLBACK_DIM
    /\ fallbacks[2].text = "" /\ fallbacks[2].dim = API_FALLBACK_DIM
    /\ fallbacks[3].text = "a" /\ fallbacks[3].dim = LOCAL_FALLBACK_DIM
    /\ fallbacks[4].text = "a" /\ fallbacks[4].dim = API_FALLBACK_DIM
    /\ fallbacks[4].vec = fallbacks[1].vec

----------------------------------------------------------------------------
(* Properties of the local backend on long lists *)

CeilDiv(n, b) == (n + b - 1) \div b

\* C8: for n texts the local backend calls the model exactly
\* ceil(n / EMBEDDING_BATCH_SIZE) times, each time with at most
\* EMBEDDING_BATCH_SIZE texts, and the rows returned are in input order.
C8_LocalBackendChunksByBatchSize ==
    (pc = "done" /\ ~use_real_spark /\ model = "SentenceTransformer"
       /\ result.kind = "list") =>
        /\ Len(model_calls) = CeilDiv(Len(texts), EMBEDDING_BATCH_SIZE)
        /\ \A c \in 1..Len(model_calls) : model_calls[c] <= EMBEDDING_BATCH_SIZE
        /\ \A k \in 1..Len(texts) : IsEmbeddingOf(result.value[k], texts[k])

----------------------------------------------------------------------------
(* Properties of test_caching_performance *)

\* C6: embedding the same list twice in a row returns equal results, and the
\* second call is answered without any backend call.
C6_SecondEmbedEqualAndFromCache ==
    test_pc = "asserted" =>
        /\ embeddings1 = embeddings2
        /\ backend_calls2 = 0

\* C16: one embed_documents call hands the backend at most one batch, made of
\* the texts that missed the cache; a call whose texts were all embedded by
\* the call before it, and so are all cached, does not reach the backend.
C16_BackendCalledForMissesOnly ==
    /\ Len(model_calls) <= 1
    /\ test_pc = "second" => BackendCalls = 0

----------------------------------------------------------------------------
(* Properties of the embedding cache *)

\* no key stands twice in the insertion order
NoDuplicates(order) ==
    \A j, k \in 1..Len(order) : order[j] = order[k] => j = k

\* a key resident before and after a step keeps its vector
ResidentVectorsKept ==
    \A key \in Resident(cache_order) \cap Resident(cache_order') :
        cache_store'[key] = cache_store[key]

\* C23: whatever the order in which the callers' Get, Put and Clear calls take
\* effect, the cache never holds more than cacheSize entries, no key is
\* resident twice, the store holds exactly the resident keys, and a Put of a
\* resident key changes neither Len() nor the vector stored for it.
C23_CacheBoundedAndPutIdempotent ==
    /\ [](/\ CacheLen <= cacheSize
          /\ NoDuplicates(cache_order)
          /\ DOMAIN cache_store = Resident(cache_order)
          /\ (cache_log.op = "put" /\ cache_log.found) =>
                cache_order = cache_log.before)
    /\ [][ResidentVectorsKept]_vars

\* a full cache after a Put of a key that was already resident
C23_Witness ==
    /\ cache_log.op = "put"
    /\ cache_log.found
    /\ cache_log.key = 2
    /\ CacheLen = cacheSize
    /\ cache_order = cache_log.before
    /\ cache_store[2] \in CacheVectors(2)

\* C7: a Put of a new key into a full cache evicts exactly one entry, the one
\* inserted earliest, also when that entry is the one most recently read by
\* Get; all other entries stay, the new key is resident, and the cache never
\* holds more than cacheSize entries, so after cacheSize + 1 distinct
\* insertions into an empty cache the first one is gone and Len() = cacheSize.
C7_EvictsOldestInserted ==
    /\ CacheLen <= cacheSize
    /\ (cache_log.op = "put" /\ ~cache_log.found) =>
          IF Len(cache_log.before) = cacheSize
          THEN /\ cache_order = Append(Tail(cache_log.before), cache_log.key)
               /\ cache_log.before[1] \notin Resident(cache_order)
               /\ CacheLen = cacheSize
          ELSE cache_order = Append(cache_log.before, cache_log.key)

\* cacheSize + 1 keys inserted in order 1, 2, ..., key 1 read last before the
\* overflowing Put, and key 1 is the one that left
C7_Witness ==
    /\ cache_log.op = "put"
    /\ cache_log.key = cacheSize + 1
    /\ cache_log.before = [k \in 1..cacheSize |-> k]
    /\ cache_log.last_get = 1
    /\ cache_order = [k \in 1..cacheSize |-> k + 1]

----------------------------------------------------------------------------
(* Properties of the services *)

\* the SparkEmbeddings objects held through the holders that are set
HeldInstances == {services[h] : h \in {x \in ServiceHolders : services[x] # 0}}

\* C11: the embedding service is one object for the whole process: all
\* services that exist hold the same SparkEmbeddings object as their
\* embeddings attribute, and at most one such object (with its backend) is
\* ever constructed.
C11_OneEmbeddingInstance ==
    /\ Cardinality(HeldInstances) <= 1
    /\ Len(embedding_instances) <= 1

\* an object of the local backend that has no model: every embedding call on
\* it is answered with fallback vectors
AnswersWithFallbackOnly(inst) == ~inst.use_real_spark /\ inst.model = "None"

\* C14: a configuration error is fatal at construction: without credentials
\* and without the local model or its dependency the constructor fails, so no
\* SparkEmbeddings object that answers with fallback vectors only ever exists.
C14_ConfigurationErrorIsFatal ==
    \A k \in 1..Len(embedding_instances) :
        ~AnswersWithFallbackOnly(embedding_instances[k])

----------------------------------------------------------------------------
(* Properties of embed_query against embed_documents *)

\* the result with the domain tag of a decoded vector replaced by dom
WithDomain(res, dom) ==
    IF res.kind = "vector" /\ res.value.kind = "api"
    THEN VectorResult([res.value EXCEPT !.domain = dom])
    ELSE res

\* C12 as stated: embed_query(t) is the same operation as
\* embed_documents([t])[0]: the same requests, domain tag included, and the
\* same vector.
C12_QueryIsDocumentsFirst ==
    compared.kind = "compared" =>
        /\ compared.query.bodies = compared.documents.bodies
        /\ compared.query.model_inputs = compared.documents.model_inputs
        /\ compared.query.result = compared.documents.result

\* C12 amended: on the local backend embed_query(t) and
\* embed_documents([t])[0] are the same operation; on the remote backend they
\* send the same number of requests for the same text and end the same way,
\* but embed_query tags every request "query" and embed_documents "para", so
\* the decoded vectors are the provider's answers to differently tagged requests.
C12_QueryIsDocumentsFirstUpToDomain ==
    compared.kind = "compared" =>
        LET q == compared.query
            d == compared.documents
        IN  /\ q.model_inputs = d.model_inputs
            /\ Len(q.bodies) = Len(d.bodies)
            /\ \A k \in 1..Len(q.bodies) :
                  /\ q.bodies[k] = GetBody(compared.text, "query")
                  /\ d.bodies[k] = GetBody(compared.text, "para")
            /\ WithDomain(q.result, "para") = d.result
            /\ ~use_real_spark => q.result = d.result

\* the local backend with its model: both methods have handed ["a"] to
\* model.encode once and returned the model's row for "a"
C12_Witness ==
    /\ compared.kind = "compared"
    /\ ~use_real_spark
    /\ model = "SentenceTransformer"
    /\ compared.text = "a"
    /\ compared.query.model_inputs = << << "a" >> >>
    /\ compared.documents.model_inputs = << << "a" >> >>
    /\ compared.query.result = VectorResult(ModelVector("a"))
    /\ compared.documents.result = VectorResult(ModelVector("a"))

----------------------------------------------------------------------------
(* Properties of the vectors of one call *)

\* the vectors the running call of the instance has produced so far
VectorsOfCall ==
    IF pc = "done" /\ result.kind = "list" THEN result.value
    ELSE IF pc = "done" /\ result.kind = "vector" THEN << result.value >>
    ELSE vectors

\* C13: all vectors an instance returns have one dimension: a fallback vector
\* is as long as a vector of a successful call of the same backend.
C13_OneDimensionPerInstance ==
    \A j, k \in 1..Len(VectorsOfCall) :
        (VectorsOfCall[j].kind = "fallback" /\ VectorsOfCall[k].kind # "fallback") =>
            VectorsOfCall[j].dim = VectorsOfCall[k].dim

\* C15: when model.encode raises, the local backend does not raise: it
\* returns one vector per text, in order, the fallback vector where the model
\* failed and the model's row elsewhere.
C15_ModelErrorReturnsFallback ==
    (pc = "done" /\ ~use_real_spark /\ model = "SentenceTransformer") =>
        /\ result.kind # "raised"
        /\ Len(VectorsOfCall) = Len(texts)
        /\ \A k \in 1..Len(texts) :
              /\ IsEmbeddingOf(VectorsOfCall[k], texts[k])
              /\ VectorsOfCall[k].kind \in {"model", "fallback"}

----------------------------------------------------------------------------
(* Properties of the statistics *)

\* C17: whatever the interleaving of the callers, totalRequests is the sum of
\* len(texts) over the calls completed since the last reset, cacheHits is the
\* number of cache hits of those calls, 0 <= cacheHits <= totalRequests, and
\* no operation other than the reset lowers a counter.
C17_StatisticsCountCompletedCalls ==
    /\ stats.totalRequests = completed.texts
    /\ stats.cacheHits = completed.hits
    /\ 0 <= stats.cacheHits
    /\ stats.cacheHits <= stats.totalRequests
    /\ stats_log.op = "update" =>
          /\ stats.totalRequests >= stats_log.before.totalRequests
          /\ stats.cacheHits >= stats_log.before.cacheHits

\* two calls for the same single text have completed without a hit: they
\* overlapped, each probing the cache before the other inserted
C17_Witness ==
    /\ completed.calls = 2
    /\ stats.totalRequests = 2
    /\ stats.cacheHits = 0
    /\ cache_order = << 1 >>
    /\ stats_log.op = "update"
    /\ \A c \in Callers : callers[c].pc = "idle"

----------------------------------------------------------------------------
(* Properties of the normalisation *)

\* sum(x*x for x in v) of the components from k on, as the fraction n / d:
\* the square of num / den2 ** 0.5 is num * num / den2
RECURSIVE NormSquared(_, _)
NormSquared(v, k) ==
    IF k > Len(v) THEN [n |-> 0, d |-> 1]
    ELSE LET rest == NormSquared(v, k + 1)
         IN  [n |-> v[k].num * v[k].num * rest.d + rest.n * v[k].den2,
              d |-> v[k].den2 * rest.d]

\* the Euclidean norm of v is 1
HasUnitNorm(v) == NormSquared(v, 1).n = NormSquared(v, 1).d

\* C18: a fallback vector has Euclidean norm 1 whenever the drawn vector is
\* not all zero, for the empty text as for any other; an all-zero draw is
\* returned as it is, the all-zero vector, and no error is raised.
C18_FallbackVectorHasUnitNorm ==
    normalized.kind = "generated" =>
        /\ ~normalized.raised
        /\ Len(normalized.vec) = SampleDim
        /\ IF \E k \in 1..SampleDim : normalized.draw[k] # 0
           THEN HasUnitNorm(normalized.vec)
           ELSE \A k \in 1..SampleDim :
                    normalized.vec[k] = [num |-> 0, den2 |-> 1]

\* the wrapper's generator, called for "a" after a call for another text:
\* it has reseeded numpy's generator and drawn its 384 samples, of magnitude
\* 3, and returned them divided by 3
C18_Witness ==
    /\ normalized.kind = "generated"
    /\ normalized.text = "a"
    /\ normalized.draws[Seed("")] # << >>
    /\ np_random_state = [seed |-> Seed("a"), drawn |-> LOCAL_FALLBACK_DIM]
    /\ SumSquares(normalized.draw, 1) = 9
    /\ \A k \in 1..SampleDim :
          normalized.vec[k] = [num |-> normalized.draw[k], den2 |-> 9]
    /\ HasUnitNorm(normalized.vec)

----------------------------------------------------------------------------
(* Properties of the generators under concurrent requests *)

\* C26: whatever other requests are in flight, the vector a handler's generator
\* call returns is the one its own text and dimension determine: no other
\* handler seeds the process-wide generator between this handler's seeding
\* and its drawing.
C26_ConcurrentFallbacksKeepOwnVector ==
    \A c \in Callers :
        generating[c].pc = "returned" =>
            generating[c].vec = Generate(generating[c].text, generating[c].dim)

\* two requests for different texts in flight: the second seeded the generator
\* while the first, already answered by its generator, has not yet ended
C26_Witness ==
    /\ generating["c1"].pc = "returned"
    /\ generating["c1"].text = "a"
    /\ generating["c1"].vec = Generate("a", API_FALLBACK_DIM)
    /\ generating["c2"].pc = "seeded"
    /\ generating["c2"].text = ""
    /\ np_random_state.seed = Seed("")

----------------------------------------------------------------------------
(* Properties of the interview sessions *)

\* the interviewer questions recorded in a session, in order
QuestionsOf(session) ==
    SelectSeq(session.conversation_history, LAMBDA msg : msg.type = "HumanMessage")

\* C27: in every session follow_up_count is 0, 1 or 2, the recorded
\* interviewer questions never contain three follow-up questions in a row,
\* and a session whose last message is a new-topic question has
\* follow_up_count 0.
C27_AtMostTwoConsecutiveFollowUps ==
    \A id \in Registered :
        LET session == interview_sessions[id]
            history == session.conversation_history
            qs      == QuestionsOf(session)
        IN  /\ session.follow_up_count \in 0..2
            /\ \A k \in 1..(Len(qs) - 2) :
                  ~(qs[k].follow_up /\ qs[k + 1].follow_up /\ qs[k + 2].follow_up)
            /\ (/\ history # << >>
                /\ history[Len(history)] = HumanMessage(FALSE)) =>
                  session.follow_up_count = 0

\* C28: in every session question_count is the number of interviewer
\* questions recorded in conversation_history, failed requests included.
C28_QuestionCountMatchesHistory ==
    \A id \in Registered :
        interview_sessions[id].question_count
            = Len(QuestionsOf(interview_sessions[id]))

\* C29: after a start request that failed for a missing prerequisite (400) or
\* with status 500, the session id of the request is not registered: the
\* registry is as it was before the request and the id can be started again.
C29_FailedStartLeavesSessionsUnchanged ==
    (/\ response.request = "start"
     /\ \/ response.status = 500
        \/ response.status = 400 /\ response.detail = "prerequisite") =>
        response.session_id \notin Registered

\* C30: a start request for a registered id is answered 400 and leaves the
\* session as it was; end_interview of a registered id unregisters it;
\* answer, history and end requests for an unregistered id are answered 404;
\* and a start request for an unregistered id is never rejected as a
\* duplicate and, when it is answered 200, registers the id.
C30_DuplicateStartRejectedAndEndUnregisters ==
    LET id  == response.session_id
        was == response.before.kind = "session"
    IN  /\ (response.request = "start" /\ was) =>
              /\ response.status = 400
              /\ interview_sessions[id] = response.before
        /\ (response.request = "end" /\ was) => id \notin Registered
        /\ (response.request \in {"answer", "history", "end"} /\ ~was) =>
              /\ response.status = 404
              /\ id \notin Registered
        /\ (response.request = "start" /\ ~was) =>
              /\ response.detail # "exists"
              /\ response.status = 200 => id \in Registered

\* a start request for the id of a session that has a question, an answer and
\* a follow-up question has just been rejected, the other id being free
C30_Witness ==
    /\ response = HttpResponse("start", "s1", 400, "exists")
    /\ interview_sessions["s1"].kind = "session"
    /\ interview_sessions["s1"].conversation_history
          = << HumanMessage(FALSE), AIMessage, HumanMessage(TRUE) >>
    /\ interview_sessions["s1"].question_count = 2
    /\ interview_sessions["s1"].follow_up_count = 1
    /\ "s2" \notin Registered

====
